---- MODULE Spec2Model ----
(***************************************************************************)
(* rekit-core: the virtual IO overlay (vio.js) and the parts of the        *)
(* refactor engine (refactor.js) that read and write through it.           *)
(*                                                                         *)
(* A text is a sequence of units.  A unit is a statement ("x", "y",        *)
(* "impB", "react", "cls", "impK") or one of the line-break characters     *)
(* "CR" and "LF".  Lines are what String.split(/\r?\n/) gives: a sequence  *)
(* of lines, each line a sequence of units.                                *)
(***************************************************************************)
EXTENDS Integers, Sequences, FiniteSets, TLC

(* ------------------------------ bounds --------------------------------- *)
MaxOps == 4
\* longest edit list given to updateSourceCode
MaxEdits == 3
\* most identifier nodes in a tree given to renameIdentifier
MaxIdents == 3

FilePaths == {"a", "b", "c"}
\* the paths whose content the calls edit; "c" is moved to, read and deleted
EditPaths == {"a", "b"}
DirPaths == {"d"}
\* the files the line operations are called on
LinePaths == {"a"}
AllPaths == FilePaths \cup DirPaths

CR == "CR"
LF == "LF"

TextX == <<"x">>
TextY == <<"y">>
TextCrLf == <<"x", CR, LF, "y">>
TextLf == <<"x", LF, "y">>

\* texts a put/save call is given
InputTexts == {TextLf}
\* the contents files have on disk before the engine starts
DiskTexts == {TextX, TextCrLf}

(* --------------------------- small helpers ----------------------------- *)
Range(s) == {s[i] : i \in 1..Len(s)}

Last(s) == s[Len(s)]

Front(s) == SubSeq(s, 1, Len(s) - 1)

\* obj[k] = v on a plain JS object used as a map
MapSet(f, k, v) == [x \in (DOMAIN f) \cup {k} |-> IF x = k THEN v ELSE f[x]]

\* delete obj[k]
MapDel(f, k) == [x \in (DOMAIN f) \ {k} |-> f[x]]

EmptyMap == [x \in {} |-> <<>>]

\* obj[k] = true on an object whose keys are later walked with Object.keys:
\* a new key goes last, an existing key keeps its place
KeyAdd(keys, k) == IF k \in Range(keys) THEN keys ELSE Append(keys, k)

(* ---------------------- String.split / Array.join ---------------------- *)
RECURSIVE SplitFrom(_, _, _, _)
SplitFrom(text, i, cur, acc) ==
  IF i > Len(text) THEN Append(acc, cur)
  ELSE IF text[i] = LF
       THEN SplitFrom(text, i + 1, <<>>,
                      Append(acc, IF cur # <<>> /\ Last(cur) = CR THEN Front(cur) ELSE cur))
       ELSE SplitFrom(text, i + 1, Append(cur, text[i]), acc)

\* text.split(/\r?\n/)
Split(text) == SplitFrom(text, 1, <<>>, <<>>)

RECURSIVE Join(_)
\* lines.join('\n')
Join(lines) ==
  IF Len(lines) = 0 THEN <<>>
  ELSE IF Len(lines) = 1 THEN lines[1]
  ELSE lines[1] \o <<LF>> \o Join(Tail(lines))

(* ------------------------------- state --------------------------------- *)
VARIABLES
  disk,       \* persistent storage: existing file path -> text
  diskDirs,   \* persistent storage: existing directories
  toSave,     \* vio.js toSave: keys in insertion order
  toDel,      \* vio.js toDel: keys in insertion order
  fileLines,  \* vio.js fileLines: path -> lines
  dirs,       \* vio.js dirs: keys in insertion order
  asts,       \* vio.js asts: path -> syntax tree
  mvs,        \* vio.js mvs: sequence of [k, v] in key insertion order
  propsCache, \* refactor.js propsCache: path -> [content, props]
  depsCache,  \* refactor.js depsCache: path -> [content, deps]
  call,       \* the last call: [op, args, err], args the paths it was given
  out,        \* what the last call logged: sequence of <<label, path>>
  nops,       \* number of calls made so far
  data,       \* what the caller holds in memory: a text, lines, a tree, edits
  res         \* what the last call on in-memory data returned

vars == <<disk, diskDirs, toSave, toDel, fileLines, dirs, asts, mvs,
          propsCache, depsCache, call, out, nops, data, res>>

overlay == <<toSave, toDel, fileLines, dirs, asts, mvs>>

Vio == [toSave |-> toSave, toDel |-> toDel, fileLines |-> fileLines,
        dirs |-> dirs, asts |-> asts, mvs |-> mvs]

(* ------------------------- persistent storage -------------------------- *)
\* shell.test('-e', p)
testE(dk, dd, p) == p \in DOMAIN dk \/ p \in dd

\* shell.cat(p): the text of the file; the empty string (and an error on
\* stderr, no exception) when there is no such file
cat(dk, p) == IF p \in DOMAIN dk THEN dk[p] ELSE <<>>

\* path.dirname(p): every modelled path lies directly under the project root
dirname(p) == "."

(* ------------------------------ parsing -------------------------------- *)
IsBreak(u) == u \in {CR, LF}

RECURSIVE ParseFrom(_, _)
ParseFrom(code, i) ==
  IF i > Len(code) THEN <<>>
  ELSE IF IsBreak(code[i]) THEN ParseFrom(code, i + 1)
  ELSE <<[stmt |-> code[i], start |-> i - 1, end |-> i]>> \o ParseFrom(code, i + 1)

\* babylon.parse(code, ...): the statements of the program with their offsets
Parse(code) == ParseFrom(code, 1)

RECURSIVE GenerateFrom(_, _)
GenerateFrom(ast, i) ==
  IF i > Len(ast) THEN <<>>
  ELSE IF i = Len(ast) THEN <<ast[i].stmt>>
  ELSE <<ast[i].stmt, LF>> \o GenerateFrom(ast, i + 1)

\* generate(ast).code: the statements printed one per line
Generate(ast) == GenerateFrom(ast, 1)

(* ----------------------------- vio.js ---------------------------------- *)
\* _.findKey(mvs, s => s === val): the first key whose value is val, "" for
\* undefined
findKey(m, val) ==
  LET hits == {i \in 1..Len(m) : m[i].v = val}
  IN IF hits = {} THEN ""
     ELSE m[CHOOSE i \in hits : \A j \in hits : i <= j].k

\* mvs[k] = val
mvsSet(m, k, val) ==
  IF \E i \in 1..Len(m) : m[i].k = k
  THEN [i \in 1..Len(m) |-> IF m[i].k = k THEN [k |-> k, v |-> val] ELSE m[i]]
  ELSE Append(m, [k |-> k, v |-> val])

\* the file a path is read from: the source of the move that targets it
realFilePath(m, filePath) ==
  IF findKey(m, filePath) # "" THEN findKey(m, filePath) ELSE filePath

\* getLines(filePath): the store after the call (lines are cached on a miss)
getLinesStore(v, dk, filePath) ==
  IF filePath \in DOMAIN v.fileLines THEN v
  ELSE [v EXCEPT !.fileLines =
          MapSet(@, filePath, Split(cat(dk, realFilePath(v.mvs, filePath))))]

\* getLines(filePath): the value returned
getLines(v, dk, filePath) == getLinesStore(v, dk, filePath).fileLines[filePath]

\* getContent(filePath)
getContent(v, dk, filePath) == Join(getLines(v, dk, filePath))

\* getAst(filePath): the store after the call
getAstStore(v, dk, filePath) ==
  IF filePath \in DOMAIN v.asts THEN v
  ELSE LET v1 == getLinesStore(v, dk, filePath)
       IN [v1 EXCEPT !.asts = MapSet(@, filePath, Parse(Join(v1.fileLines[filePath])))]

\* getAst(filePath): the value returned
getAst(v, dk, filePath) == getAstStore(v, dk, filePath).asts[filePath]

\* fileExists(filePath)
fileExists(v, filePath) ==
  (filePath \in DOMAIN v.fileLines \/ filePath \in Range(v.toSave))
  /\ filePath \notin Range(v.toDel)

\* dirExists(dir)
dirExists(v, dir) == dir \in Range(v.dirs) /\ dir \notin Range(v.toDel)

\* An argument that is a text or a line array: [kind, val]; kind "none" is an
\* omitted argument.  A text is held as the one element of val.
NoArg == [kind |-> "none", val |-> <<>>]
TextArg(t) == [kind |-> "text", val |-> <<t>>]
LinesArg(l) == [kind |-> "lines", val |-> l]

\* put(filePath, lines)
put(v, filePath, lines) ==
  LET ls == IF lines.kind = "text" THEN Split(lines.val[1]) ELSE lines.val
  IN [v EXCEPT !.fileLines = MapSet(@, filePath, ls),
               !.asts = MapDel(@, filePath)]

\* if (lines): an omitted argument and the empty string are falsy
Truthy(lines) ==
  /\ lines.kind # "none"
  /\ ~(lines.kind = "text" /\ lines.val[1] = <<>>)

\* save(filePath, lines)
save(v, filePath, lines) ==
  LET v1 == IF Truthy(lines) THEN put(v, filePath, lines) ELSE v
  IN [v1 EXCEPT !.toSave = KeyAdd(@, filePath)]

\* saveAst(filePath, ast)
saveAst(v, filePath, ast) ==
  LET v1 == [v EXCEPT !.asts = MapSet(@, filePath, ast)]
  IN save(v1, filePath, LinesArg(Split(Generate(ast))))

\* mkdir(dir)
mkdir(v, dir) == [v EXCEPT !.dirs = KeyAdd(@, dir)]

\* del(filePath)
del(v, filePath) == [v EXCEPT !.toDel = KeyAdd(@, filePath)]

\* move(oldPath, newPath): the error thrown, "" for none
moveError(v, dk, dd, oldPath, newPath) ==
  IF oldPath \in Range(v.toDel) \/ ~testE(dk, dd, oldPath) THEN "No file to move"
  ELSE IF testE(dk, dd, newPath) THEN "Target file already exists"
  ELSE ""

\* move(oldPath, newPath): the store after a call that does not throw
move(v, oldPath, newPath) ==
  LET fl == IF oldPath \in DOMAIN v.fileLines
            THEN MapDel(MapSet(v.fileLines, newPath, v.fileLines[oldPath]), oldPath)
            ELSE v.fileLines
      as == IF oldPath \in DOMAIN v.asts
            THEN MapDel(MapSet(v.asts, newPath, v.asts[oldPath]), oldPath)
            ELSE v.asts
      key == realFilePath(v.mvs, oldPath)
  IN [v EXCEPT !.fileLines = fl, !.asts = as, !.mvs = mvsSet(@, key, newPath)]

\* reset()
reset(v) == [toSave |-> <<>>, toDel |-> <<>>, fileLines |-> EmptyMap,
             dirs |-> <<>>, asts |-> EmptyMap, mvs |-> <<>>]

(* ------------------------------ flush ---------------------------------- *)
\* What flush works on: persistent storage, the line cache (getLines fills
\* it) and the log.
FlushState(dk, dd, fl) == [disk |-> dk, diskDirs |-> dd, fileLines |-> fl, out |-> <<>>]

Log(st, label, filePath) == [st EXCEPT !.out = Append(@, <<label, filePath>>)]

\* shell.mkdir('-p', dir)
shMkdir(st, dir) == [st EXCEPT !.diskDirs = @ \cup {dir}]

\* shell.rm('-rf', filePath)
shRm(st, filePath) ==
  [st EXCEPT !.disk = MapDel(@, filePath), !.diskDirs = @ \ {filePath}]

\* shell.mv(src, dest): rename, replacing a file already at dest
shMv(st, src, dest) ==
  [st EXCEPT !.disk = MapSet(MapDel(@, src), dest, st.disk[src])]

\* shell.ShellString(content).to(filePath)
shWrite(st, filePath, content) == [st EXCEPT !.disk = MapSet(@, filePath, content)]

\* ensurePathDir(fullPath)
ensurePathDir(st, fullPath) ==
  IF ~testE(st.disk, st.diskDirs, dirname(fullPath))
  THEN shMkdir(st, dirname(fullPath))
  ELSE st

\* one turn of the loop over Object.keys(dirs)
flushDir(st, dir) ==
  IF ~testE(st.disk, st.diskDirs, dir) THEN shMkdir(st, dir) ELSE st

\* one turn of the loop over Object.keys(toDel)
flushDel(st, filePath) ==
  IF ~testE(st.disk, st.diskDirs, filePath)
  THEN Log(st, "Warning: no file to delete: ", filePath)
  ELSE Log(shRm(st, filePath), "Deleted: ", filePath)

\* one turn of the loop over Object.keys(mvs)
flushMv(st, filePath, dest) ==
  IF ~testE(st.disk, st.diskDirs, filePath)
  THEN Log(st, "Warning: no file to move: ", filePath)
  ELSE Log(shMv(st, filePath, dest), "Moved: ", filePath)

\* flushSave with the "continue" misplaced: a file that exists is never
\* rewritten
flushSaveSkipsExisting(st, m, filePath) ==
  LET fl1 == getLinesStore([fileLines |-> st.fileLines, mvs |-> m],
                           st.disk, filePath).fileLines
      st1 == [st EXCEPT !.fileLines = fl1]
  IN IF testE(st.disk, st.diskDirs, filePath)
     THEN Log(st1, "Warning: nothing is changed for: ", filePath)
     ELSE shWrite(Log(ensurePathDir(st1, filePath), "Created: ", filePath),
                  filePath, Join(fl1[filePath]))

\* one turn of the loop over Object.keys(toSave)
flushSave(st, m, filePath) ==
  LET fl1 == getLinesStore([fileLines |-> st.fileLines, mvs |-> m],
                           st.disk, filePath).fileLines
      st1 == [st EXCEPT !.fileLines = fl1]
      newContent == Join(fl1[filePath])
  IN IF testE(st.disk, st.diskDirs, filePath)
     THEN LET oldContent == Join(Split(cat(st.disk, filePath)))
          IN IF oldContent = newContent
             THEN Log(st1, "Warning: nothing is changed for: ", filePath)
             ELSE shWrite(Log(st1, "Updated: ", filePath), filePath, newContent)
     ELSE shWrite(Log(ensurePathDir(st1, filePath), "Created: ", filePath),
                  filePath, newContent)

RECURSIVE flushDirs(_, _, _)
flushDirs(st, keys, i) ==
  IF i > Len(keys) THEN st ELSE flushDirs(flushDir(st, keys[i]), keys, i + 1)

\* the delete loop giving up at the first target that is not on disk
RECURSIVE flushDelsAbort(_, _, _)
flushDelsAbort(st, keys, i) ==
  IF i > Len(keys) THEN st
  ELSE IF ~testE(st.disk, st.diskDirs, keys[i])
       THEN Log(st, "Warning: no file to delete: ", keys[i])
       ELSE flushDelsAbort(flushDel(st, keys[i]), keys, i + 1)

RECURSIVE flushDels(_, _, _)
flushDels(st, keys, i) ==
  IF i > Len(keys) THEN st ELSE flushDels(flushDel(st, keys[i]), keys, i + 1)

RECURSIVE flushMvs(_, _, _)
flushMvs(st, m, i) ==
  IF i > Len(m) THEN st ELSE flushMvs(flushMv(st, m[i].k, m[i].v), m, i + 1)

RECURSIVE flushSaves(_, _, _, _)
flushSaves(st, m, keys, i) ==
  IF i > Len(keys) THEN st ELSE flushSaves(flushSave(st, m, keys[i]), m, keys, i + 1)

\* flush writing the files before it deletes and moves
flushWritesFirst(v, dk, dd) ==
  LET s0 == FlushState(dk, dd, v.fileLines)
      s1 == flushDirs(s0, v.dirs, 1)
      s2 == flushSaves(s1, v.mvs, v.toSave, 1)
      s3 == flushDels(s2, v.toDel, 1)
  IN flushMvs(s3, v.mvs, 1)

\* flush(): directories, then deletes, then moves, then saves
flush(v, dk, dd) ==
  LET s0 == FlushState(dk, dd, v.fileLines)
      s1 == flushDirs(s0, v.dirs, 1)
      s2 == flushDels(s1, v.toDel, 1)
      s3 == flushMvs(s2, v.mvs, 1)
  IN flushSaves(s3, v.mvs, v.toSave, 1)

(* --------------------------- refactor.js ------------------------------- *)
\* changes.sort((c1, c2) => c2.start - c1.start): descending start, equal
\* starts keep their order
RECURSIVE InsertChange(_, _)
InsertChange(sorted, c) ==
  IF sorted = <<>> THEN <<c>>
  ELSE IF c.start > Head(sorted).start THEN <<c>> \o sorted
  ELSE <<Head(sorted)>> \o InsertChange(Tail(sorted), c)

RECURSIVE SortChanges(_)
SortChanges(changes) ==
  IF changes = <<>> THEN <<>>
  ELSE InsertChange(SortChanges(Front(changes)), Last(changes))

\* the _.reduce keeping every change
KeepChangesAll(sorted, i, prev) == sorted

\* the _.reduce that drops same or overlapped changes
RECURSIVE KeepChanges(_, _, _)
KeepChanges(sorted, i, prev) ==
  IF i > Len(sorted) THEN prev
  ELSE KeepChanges(sorted, i + 1,
                   IF prev = <<>> \/ Last(prev).start > sorted[i].end
                   THEN Append(prev, sorted[i]) ELSE prev)

Min2(x, y) == IF x < y THEN x ELSE y

Max2(x, y) == IF x > y THEN x ELSE y

\* chars.splice(start, deleteCount, item): item goes in as one element
Splice(chars, start, deleteCount, item) ==
  LET st == Min2(start, Len(chars))
      dc == Max2(0, Min2(deleteCount, Len(chars) - st))
  IN SubSeq(chars, 1, st) \o <<item>> \o SubSeq(chars, st + dc + 1, Len(chars))

RECURSIVE SpliceAll(_, _, _)
SpliceAll(chars, kept, i) ==
  IF i > Len(kept) THEN chars
  ELSE SpliceAll(Splice(chars, kept[i].start, kept[i].end - kept[i].start,
                        kept[i].replacement), kept, i + 1)

RECURSIVE Flatten(_)
\* chars.join('')
Flatten(chars) == IF chars = <<>> THEN <<>> ELSE Head(chars) \o Flatten(Tail(chars))

\* updateSourceCode(code, changes)
updateSourceCode(code, changes) ==
  LET newChanges == KeepChanges(SortChanges(changes), 1, <<>>)
      chars == [i \in 1..Len(code) |-> <<code[i]>>]
  IN Flatten(SpliceAll(chars, newChanges, 1))

\* updateFile(filePath, changes), changes an array
updateFile(v, dk, filePath, changes) ==
  LET v1 == getLinesStore(v, dk, filePath)
      code == updateSourceCode(Join(v1.fileLines[filePath]), changes)
  IN save(v1, filePath, TextArg(code))

\* statements that are import declarations: a line that begins with one
\* matches /^import /
\* import statements whose source is an entry file: a feature index
\* ('../home') or a redux/actions.js ('./redux/actions')
IndexImports == {"impIdxBN", "impIdxNK", "impIdxAll", "impIdxHomeB"}
ActionImports == {"impActBN", "impActNK"}

ImportStmts == {"impB", "impK", "react"} \cup IndexImports \cup ActionImports

IsImportLine(line) == line # <<>> /\ Head(line) \in ImportStmts

\* lastLineIndex(lines, /^import /): 0-based, -1 when no line matches
lastImportIndex(lines) ==
  LET hits == {i \in 1..Len(lines) : IsImportLine(lines[i])}
  IN IF hits = {} THEN -1
     ELSE (CHOOSE i \in hits : \A j \in hits : i >= j) - 1

\* addImportLine(lines, importLine)
addImportLine(lines, importLine) ==
  LET i == lastImportIndex(lines)
  IN SubSeq(lines, 1, i + 1) \o <<importLine>> \o SubSeq(lines, i + 2, Len(lines))

\* acceptFilePathForLines(addImportLine)(file, importLine), file a path
addImportLineFile(v, dk, file, importLine) ==
  LET v1 == getLinesStore(v, dk, file)
      lines == addImportLine(v1.fileLines[file], importLine)
  IN save([v1 EXCEPT !.fileLines = MapSet(@, file, lines)], file, LinesArg(lines))

\* statement kinds getRekitProps looks for
HasStmt(ast, stmt) == \E i \in 1..Len(ast) : ast[i].stmt = stmt

\* the props object getRekitProps builds from the tree
rekitProps(ast) ==
  [component |-> HasStmt(ast, "react") /\ HasStmt(ast, "cls"),
   action |-> HasStmt(ast, "reducer") /\ HasStmt(ast, "consts")]

\* getRekitProps(file): [v, pc, ret], the store, propsCache and value after
getRekitProps(v, pc, dk, file) ==
  LET v1 == getLinesStore(v, dk, file)
      content == Join(v1.fileLines[file])
  IN IF file \in DOMAIN pc /\ pc[file].content = content
     THEN [v |-> v1, pc |-> pc, ret |-> pc[file].props]
     ELSE LET v2 == getAstStore(v1, dk, file)
              props == rekitProps(v2.asts[file])
          IN [v |-> v2,
              pc |-> MapSet(pc, file, [content |-> content, props |-> props]),
              ret |-> props]

\* utils.resolveModulePath(filePath, depModule) + '.js' for the local import
\* statements of the model; "" for a module that is not local
importTarget(stmt) ==
  IF stmt = "impB" THEN "b"
  ELSE IF stmt = "impK" THEN "c"
  ELSE IF stmt \in IndexImports THEN "idx"
  ELSE IF stmt \in ActionImports THEN "acts"
  ELSE ""

\* utils.getFeatureName(file)
getFeatureName(file) == "home"

\* isFeatureIndex(modulePath), isActionEntry(modulePath) on the paths above
isFeatureIndex(modulePath) == modulePath = "idx"

isActionEntry(modulePath) == modulePath = "acts"

ImportSpecifier(name) == [type |-> "ImportSpecifier", name |-> name]

\* node.specifiers of an import from an entry file; a default or namespace
\* specifier has a local name and no imported one
ImportSpecifiers(stmt) ==
  IF stmt \in {"impIdxBN", "impActBN"}
  THEN <<ImportSpecifier("B"), ImportSpecifier("N")>>
  ELSE IF stmt \in {"impIdxNK", "impActNK"}
  THEN <<ImportSpecifier("N"), ImportSpecifier("K")>>
  ELSE IF stmt = "impIdxAll"
  THEN <<[type |-> "ImportNamespaceSpecifier", name |-> ""]>>
  ELSE IF stmt = "impIdxHomeB"
  THEN <<[type |-> "ImportDefaultSpecifier", name |-> ""], ImportSpecifier("B")>>
  ELSE <<>>

\* the `export { name } from source` statements of an entry file: the name
\* exported and the file it comes from
EntryExport(stmt) ==
  IF stmt = "expB" THEN [name |-> "B", file |-> "b"]
  ELSE IF stmt = "expK" THEN [name |-> "K", file |-> "c"]
  ELSE [name |-> "", file |-> ""]

\* getEntryData(filePath): the store after and the export map
getEntryData(v, dk, filePath) ==
  LET v1 == getAstStore(v, dk, filePath)
      ast == v1.asts[filePath]
      names == {EntryExport(ast[i].stmt).name : i \in 1..Len(ast)} \ {""}
  IN [v |-> v1,
      feature |-> getFeatureName(filePath),
      exported |-> [n \in names |->
                      EntryExport(CHOOSE u \in {"expB", "expK"} :
                                    EntryExport(u).name = n).file]]

\* pushDep(type, data): no duplicate of feature and name; the push goes to
\* deps.actions whatever the type
pushDep(deps, type, item) ==
  IF \E i \in 1..Len(deps[type]) :
       deps[type][i].feature = item.feature /\ deps[type][i].name = item.name
  THEN deps
  ELSE [deps EXCEPT !.actions = Append(@, item)]

\* an imported name the entry does not export: utils.warn(...); return
onMissingName(st, importedName) == [st EXCEPT !.warned = Append(@, importedName)]

\* node.specifiers.forEach of an import from a feature index
RECURSIVE indexSpecifiers(_, _, _, _)
indexSpecifiers(st, indexEntry, specifiers, i) ==
  IF i > Len(specifiers) \/ st.err # "" THEN st
  ELSE LET specifier == specifiers[i]
           st1 ==
             IF specifier.type = "ImportNamespaceSpecifier" THEN st
             ELSE IF specifier.type = "ImportDefaultSpecifier"
             THEN [st EXCEPT !.err = "TypeError"]
             ELSE IF specifier.name \notin DOMAIN indexEntry.exported
             THEN onMissingName(st, specifier.name)
             ELSE [st EXCEPT !.depFiles =
                     Append(@, [name |-> specifier.name,
                                file |-> indexEntry.exported[specifier.name]])]
       IN indexSpecifiers(st1, indexEntry, specifiers, i + 1)

\* node.specifiers.forEach of an import from redux/actions.js
RECURSIVE actionSpecifiers(_, _, _, _)
actionSpecifiers(st, actionEntry, specifiers, i) ==
  IF i > Len(specifiers) \/ st.err # "" THEN st
  ELSE LET specifier == specifiers[i]
           st1 ==
             IF specifier.type = "ImportNamespaceSpecifier" THEN st
             ELSE IF specifier.type = "ImportDefaultSpecifier"
             THEN [st EXCEPT !.err = "TypeError"]
             ELSE IF specifier.name \notin DOMAIN actionEntry.exported
             THEN onMissingName(st, specifier.name)
             ELSE [st EXCEPT !.deps =
                     pushDep(@, "actions",
                             [feature |-> actionEntry.feature, type |-> "action",
                              name |-> specifier.name,
                              file |-> actionEntry.exported[specifier.name]])]
       IN actionSpecifiers(st1, actionEntry, specifiers, i + 1)

\* the specifiers of an import from a feature index, once its entry is read
importFromIndex(st, indexEntry, stmt) ==
  indexSpecifiers([st EXCEPT !.v = indexEntry.v], indexEntry, ImportSpecifiers(stmt), 1)

\* the specifiers of an import from redux/actions.js, once its entry is read
importFromActions(st, actionEntry, stmt) ==
  actionSpecifiers([st EXCEPT !.v = actionEntry.v], actionEntry, ImportSpecifiers(stmt), 1)

\* the ImportDeclaration visitor of getDeps on one statement
visitImport(st, dk, dd, stmt, fullPath) ==
  IF fullPath = "" THEN st
  ELSE IF isFeatureIndex(fullPath)
  THEN importFromIndex(st, getEntryData(st.v, dk, fullPath), stmt)
  ELSE IF ~testE(dk, dd, fullPath) THEN st
  ELSE IF isActionEntry(fullPath)
  THEN importFromActions(st, getEntryData(st.v, dk, fullPath), stmt)
  ELSE [st EXCEPT !.depFiles = Append(@, [name |-> fullPath, file |-> fullPath])]

\* the ImportDeclaration visitor of getDeps over the statements of the tree;
\* st is [v, deps, depFiles, warned, err]
RECURSIVE depFilesFrom(_, _, _, _, _)
depFilesFrom(st, dk, dd, ast, i) ==
  IF i > Len(ast) \/ st.err # "" THEN st
  ELSE depFilesFrom(visitImport(st, dk, dd, ast[i].stmt, importTarget(ast[i].stmt)),
                    dk, dd, ast, i + 1)

\* depFiles.forEach(...): classify each file by its props
RECURSIVE classifyDeps(_, _, _, _)
classifyDeps(acc, dk, depFiles, i) ==
  IF i > Len(depFiles) THEN acc
  ELSE LET item == depFiles[i]
           r == getRekitProps(acc.v, acc.pc, dk, item.file)
           feature == getFeatureName(item.file)
           deps1 ==
             IF r.ret.component
             THEN IF feature # ""
                  THEN [acc.deps EXCEPT !.components =
                          Append(@, [feature |-> feature, type |-> "component",
                                     name |-> item.name, file |-> item.file])]
                  ELSE acc.deps
             ELSE [acc.deps EXCEPT !.misc =
                     Append(@, [feature |-> feature, type |-> "misc",
                                name |-> item.file])]
       IN classifyDeps([v |-> r.v, pc |-> r.pc, deps |-> deps1], dk, depFiles, i + 1)

\* the end of getDeps: the record is cached under the content and returned
cacheDeps(v3, pc, dc, deps, warned, filePath) ==
  [v |-> v3, pc |-> pc,
   dc |-> MapSet(dc, filePath,
                 [content |-> Join(v3.fileLines[filePath]), deps |-> deps]),
   ret |-> deps, cached |-> FALSE, warned |-> warned, err |-> ""]

\* getDeps after the files are classified
classifiedDeps(r, dc, dk, warned, filePath) ==
  cacheDeps(getLinesStore(r.v, dk, filePath), r.pc, dc, r.deps, warned, filePath)

\* getDeps after the traversal; an exception thrown in it leaves both caches
\* of refactor.js as they were
traversedDeps(st, pc, dc, dk, filePath) ==
  IF st.err # ""
  THEN [v |-> st.v, pc |-> pc, dc |-> dc,
        ret |-> [actions |-> <<>>, components |-> <<>>,
                 misc |-> <<>>, constants |-> <<>>],
        cached |-> FALSE, warned |-> st.warned, err |-> st.err]
  ELSE classifiedDeps(classifyDeps([v |-> st.v, pc |-> pc, deps |-> st.deps],
                                   dk, st.depFiles, 1),
                      dc, dk, st.warned, filePath)

\* getDeps once the tree is read
parsedDeps(v2, pc, dc, dk, dd, filePath) ==
  traversedDeps(depFilesFrom([v |-> v2,
                              deps |-> [actions |-> <<>>, components |-> <<>>,
                                        misc |-> <<>>, constants |-> <<>>],
                              depFiles |-> <<>>, warned |-> <<>>, err |-> ""],
                             dk, dd, v2.asts[filePath], 1),
                pc, dc, dk, filePath)

\* getDeps past its cache test: the tree is read and traversed, the files
\* found are classified, and the record is cached
computeDeps(v1, pc, dc, dk, dd, filePath) ==
  parsedDeps(getAstStore(v1, dk, filePath), pc, dc, dk, dd, filePath)

\* getDeps returning the record it has for the path whatever the content
getDepsIgnoresContent(v, pc, dc, dk, dd, filePath) ==
  LET v1 == getLinesStore(v, dk, filePath)
  IN IF filePath \in DOMAIN dc
     THEN [v |-> v1, pc |-> pc, dc |-> dc, ret |-> dc[filePath].deps, cached |-> TRUE,
           warned |-> <<>>, err |-> ""]
     ELSE computeDeps(v1, pc, dc, dk, dd, filePath)

\* getDeps(filePath): [v, pc, dc, ret, cached, warned, err], the store, both
\* caches, the record returned, whether it is the cached one (the return of
\* line 532), the names warned about and the exception thrown, if any
getDeps(v, pc, dc, dk, dd, filePath) ==
  LET v1 == getLinesStore(v, dk, filePath)
      content == Join(v1.fileLines[filePath])
  IN IF filePath \in DOMAIN dc /\ dc[filePath].content = content
     THEN [v |-> v1, pc |-> pc, dc |-> dc, ret |-> dc[filePath].deps, cached |-> TRUE,
           warned |-> <<>>, err |-> ""]
     ELSE computeDeps(v1, pc, dc, dk, dd, filePath)

(* --------------------------- inputs of calls --------------------------- *)
\* the line arrays a put/save call is given
InputLines == {<<TextY>>}

InputArgs == {TextArg(t) : t \in InputTexts} \cup {LinesArg(l) : l \in InputLines}

\* the trees a saveAst call is given
InputAsts == {Parse(TextLf)}

\* the change lists an updateFile call is given
InputChanges ==
  {<<[start |-> 0, end |-> 1, replacement |-> <<"z">>]>>,
   <<[start |-> 0, end |-> 3, replacement |-> <<>>]>>}

\* the line an addImportLine call is given
ImportK == <<"impK">>

\* the disks the engine may start on
InitDisks ==
  {[p \in {"a"} |-> t] : t \in DiskTexts}
  \cup {[p \in {"a", "b"} |-> IF p = "a" THEN TextCrLf ELSE TextX]}

(* ------------------------------ actions -------------------------------- *)
SetVio(v) ==
  /\ toSave' = v.toSave
  /\ toDel' = v.toDel
  /\ fileLines' = v.fileLines
  /\ dirs' = v.dirs
  /\ asts' = v.asts
  /\ mvs' = v.mvs

Called(op, args, err) ==
  /\ nops < MaxOps
  /\ nops' = nops + 1
  /\ call' = [op |-> op, args |-> args, err |-> err]
  /\ UNCHANGED <<data, res>>

Init ==
  /\ disk \in InitDisks
  /\ diskDirs = {"."}
  /\ toSave = <<>>
  /\ toDel = <<>>
  /\ fileLines = EmptyMap
  /\ dirs = <<>>
  /\ asts = EmptyMap
  /\ mvs = <<>>
  /\ propsCache = EmptyMap
  /\ depsCache = EmptyMap
  /\ call = [op |-> "start", args |-> <<>>, err |-> ""]
  /\ out = <<>>
  /\ nops = 0
  /\ data = <<>>
  /\ res = <<>>

\* vio.getLines(filePath)
CallGetLines ==
  \E p \in FilePaths :
    /\ Called("getLines", <<p>>, "")
    /\ SetVio(getLinesStore(Vio, disk, p))
    /\ out' = <<>>
    /\ UNCHANGED <<disk, diskDirs, propsCache, depsCache>>

\* vio.getAst(filePath)
CallGetAst ==
  \E p \in EditPaths :
    /\ Called("getAst", <<p>>, "")
    /\ SetVio(getAstStore(Vio, disk, p))
    /\ out' = <<>>
    /\ UNCHANGED <<disk, diskDirs, propsCache, depsCache>>

\* vio.put(filePath, lines)
CallPut ==
  \E p \in EditPaths, a \in InputArgs :
    /\ Called("put", <<p>>, "")
    /\ SetVio(put(Vio, p, a))
    /\ out' = <<>>
    /\ UNCHANGED <<disk, diskDirs, propsCache, depsCache>>

\* save writing the file at once instead of staging it
CallSaveWritesThrough ==
  \E p \in EditPaths, a \in InputArgs \cup {NoArg} :
    /\ Called("save", <<p>>, "")
    /\ SetVio(save(Vio, p, a))
    /\ disk' = MapSet(disk, p, getContent(save(Vio, p, a), disk, p))
    /\ out' = <<>>
    /\ UNCHANGED <<diskDirs, propsCache, depsCache>>

\* vio.save(filePath, lines) and vio.save(filePath)
CallSave ==
  \E p \in EditPaths, a \in InputArgs \cup {NoArg} :
    /\ Called("save", <<p>>, "")
    /\ SetVio(save(Vio, p, a))
    /\ out' = <<>>
    /\ UNCHANGED <<disk, diskDirs, propsCache, depsCache>>

\* vio.saveAst(filePath, ast)
CallSaveAst ==
  \E p \in EditPaths, t \in InputAsts :
    /\ Called("saveAst", <<p>>, "")
    /\ SetVio(saveAst(Vio, p, t))
    /\ out' = <<>>
    /\ UNCHANGED <<disk, diskDirs, propsCache, depsCache>>

\* vio.mkdir(dir)
CallMkdir ==
  \E d \in DirPaths :
    /\ Called("mkdir", <<d>>, "")
    /\ SetVio(mkdir(Vio, d))
    /\ out' = <<>>
    /\ UNCHANGED <<disk, diskDirs, propsCache, depsCache>>

\* vio.del(filePath)
CallDel ==
  \E p \in AllPaths :
    /\ Called("del", <<p>>, "")
    /\ SetVio(del(Vio, p))
    /\ out' = <<>>
    /\ UNCHANGED <<disk, diskDirs, propsCache, depsCache>>

\* vio.move(oldPath, newPath): throws before it changes anything, or moves
CallMove ==
  \E o \in FilePaths, n \in FilePaths :
    LET err == moveError(Vio, disk, diskDirs, o, n)
    IN /\ Called("move", <<o, n>>, err)
       /\ IF err = "No file to move"
          THEN /\ out' = <<<<"Error: no file to move: ", o>>>>
               /\ UNCHANGED overlay
          ELSE IF err = "Target file already exists"
          THEN /\ out' = <<<<"Error: target file already exists: ", n>>>>
               /\ UNCHANGED overlay
          ELSE /\ out' = <<>>
               /\ SetVio(move(Vio, o, n))
       /\ UNCHANGED <<disk, diskDirs, propsCache, depsCache>>

\* vio.reset()
CallReset ==
  /\ Called("reset", <<>>, "")
  /\ SetVio(reset(Vio))
  /\ out' = <<>>
  /\ UNCHANGED <<disk, diskDirs, propsCache, depsCache>>

\* flush emptying the staging sets once it has committed them
CallFlushDrains ==
  LET st == flush(Vio, disk, diskDirs)
  IN /\ Called("flush", <<>>, "")
     /\ disk' = st.disk
     /\ diskDirs' = st.diskDirs
     /\ fileLines' = st.fileLines
     /\ out' = st.out
     /\ toSave' = <<>>
     /\ toDel' = <<>>
     /\ dirs' = <<>>
     /\ mvs' = <<>>
     /\ UNCHANGED <<asts, propsCache, depsCache>>

\* vio.flush()
CallFlush ==
  LET st == flush(Vio, disk, diskDirs)
  IN /\ Called("flush", <<>>, "")
     /\ disk' = st.disk
     /\ diskDirs' = st.diskDirs
     /\ fileLines' = st.fileLines
     /\ out' = st.out
     /\ UNCHANGED <<toSave, toDel, dirs, asts, mvs, propsCache, depsCache>>

\* refactor.addImportLine(file, importLine), file a path
CallAddImportLine ==
  \E p \in EditPaths :
    /\ Called("addImportLine", <<p>>, "")
    /\ SetVio(addImportLineFile(Vio, disk, p, ImportK))
    /\ out' = <<>>
    /\ UNCHANGED <<disk, diskDirs, propsCache, depsCache>>

\* refactor.updateFile(filePath, changes)
CallUpdateFile ==
  \E p \in EditPaths, c \in InputChanges :
    /\ Called("updateFile", <<p>>, "")
    /\ SetVio(updateFile(Vio, disk, p, c))
    /\ out' = <<>>
    /\ UNCHANGED <<disk, diskDirs, propsCache, depsCache>>

Next ==
  \/ CallGetLines
  \/ CallGetAst
  \/ CallPut
  \/ CallSave
  \/ CallSaveAst
  \/ CallMkdir
  \/ CallDel
  \/ CallMove
  \/ CallReset
  \/ CallFlush
  \/ CallAddImportLine
  \/ CallUpdateFile

Spec == Init /\ [][Next]_vars

\* the staging calls and flush, without the refactor engine
NextFlush ==
  \/ CallGetLines
  \/ CallPut
  \/ CallSave
  \/ CallMkdir
  \/ CallDel
  \/ CallMove
  \/ CallReset
  \/ CallFlush

SpecFlush == Init /\ [][NextFlush]_vars

(* ------------------- edits applied to a text in memory ----------------- *)
\* the engine as it starts, whatever the disk holds
EngineStart ==
  /\ diskDirs = {"."}
  /\ toSave = <<>>
  /\ toDel = <<>>
  /\ fileLines = EmptyMap
  /\ dirs = <<>>
  /\ asts = EmptyMap
  /\ mvs = <<>>
  /\ propsCache = EmptyMap
  /\ depsCache = EmptyMap
  /\ call = [op |-> "start", args |-> <<>>, err |-> ""]
  /\ out = <<>>
  /\ nops = 0

\* a call that works on the caller's data only
CalledOnData(op, args) ==
  /\ nops < MaxOps
  /\ nops' = nops + 1
  /\ call' = [op |-> op, args |-> args, err |-> ""]
  /\ out' = <<>>
  /\ UNCHANGED <<disk, diskDirs, overlay, propsCache, depsCache>>

TextXYZ == <<"x", "y", "z">>

\* the edits a caller may ask for on TextXYZ: {start, end, replacement}
InputEdits ==
  {[start |-> s, end |-> e, replacement |-> r] :
     s \in 0..Len(TextXYZ), e \in 0..Len(TextXYZ), r \in {<<>>, <<"w">>}}

\* edit lists of up to MaxEdits edits
InputEditLists ==
  UNION {[1..n -> {c \in InputEdits : c.start <= c.end}] : n \in 0..MaxEdits}

InitEdits ==
  /\ EngineStart
  /\ disk = [p \in {"a"} |-> TextX]
  /\ data \in [code : {TextXYZ}, changes : InputEditLists]
  /\ res = <<>>

\* refactor.updateSourceCode(code, changes): changes.sort sorts the caller's
\* array in place (a stable sort for arrays this short)
CallUpdateSourceCode ==
  /\ CalledOnData("updateSourceCode", <<>>)
  /\ res' = updateSourceCode(data.code, data.changes)
  /\ data' = [data EXCEPT !.changes = SortChanges(@)]

NextEdits == CallUpdateSourceCode

SpecEdits == InitEdits /\ [][NextEdits]_vars

\* a longer text, for edit lists in which one edit overlaps two others that
\* are apart
TextWXYZ == <<"w", "x", "y", "z">>

\* the edits a caller may ask for on TextWXYZ
InputRanges ==
  {[start |-> s, end |-> e, replacement |-> r] :
     s \in 0..Len(TextWXYZ), e \in 0..Len(TextWXYZ), r \in {<<>>, <<"v">>}}

InputRangeLists ==
  UNION {[1..n -> {c \in InputRanges : c.start <= c.end}] : n \in 0..MaxEdits}

InitRanges ==
  /\ EngineStart
  /\ disk = [p \in {"a"} |-> TextX]
  /\ data \in [code : {TextWXYZ}, changes : InputRangeLists]
  /\ res = <<>>

SpecRanges == InitRanges /\ [][NextEdits]_vars

(* ------------- pending-write content carried by a move ----------------- *)
\* The ledger (data) notes the pairs [old, new] such that old was moved to
\* new with content pending write: saved with content and then moved, or
\* moved and then saved with content at new.  A later save or move that
\* names either path takes the pair off the ledger.
Untold(ledger, paths) == {r \in ledger : r.old \notin paths /\ r.new \notin paths}

InitCarry ==
  /\ EngineStart
  /\ disk \in InitDisks
  /\ data = {}
  /\ res = <<>>

\* vio.save(filePath, lines) and vio.save(filePath)
CarrySave ==
  \E p \in EditPaths, a \in InputArgs \cup {NoArg} :
    /\ nops < MaxOps
    /\ nops' = nops + 1
    /\ call' = [op |-> "save", args |-> <<p>>, err |-> ""]
    /\ SetVio(save(Vio, p, a))
    /\ data' = Untold(data, {p})
                 \cup {[old |-> mvs[i].k, new |-> p] :
                         i \in {j \in 1..Len(mvs) : mvs[j].v = p /\ Truthy(a)}}
    /\ out' = <<>>
    /\ UNCHANGED <<disk, diskDirs, propsCache, depsCache, res>>

\* vio.move(oldPath, newPath): throws before it changes anything, or moves
CarryMove ==
  \E o \in FilePaths, n \in FilePaths :
    LET err == moveError(Vio, disk, diskDirs, o, n)
    IN /\ nops < MaxOps
       /\ nops' = nops + 1
       /\ call' = [op |-> "move", args |-> <<o, n>>, err |-> err]
       /\ IF err = "No file to move"
          THEN /\ out' = <<<<"Error: no file to move: ", o>>>>
               /\ UNCHANGED <<overlay, data>>
          ELSE IF err = "Target file already exists"
          THEN /\ out' = <<<<"Error: target file already exists: ", n>>>>
               /\ UNCHANGED <<overlay, data>>
          ELSE /\ out' = <<>>
               /\ SetVio(move(Vio, o, n))
               /\ data' = Untold(data, {o, n})
                            \cup {[old |-> o, new |-> n] :
                                    x \in {y \in {o} : /\ y \in Range(toSave)
                                                       /\ y \in DOMAIN fileLines}}
       /\ UNCHANGED <<disk, diskDirs, propsCache, depsCache, res>>

\* vio.flush()
CarryFlush ==
  /\ nops < MaxOps
  /\ nops' = nops + 1
  /\ call' = [op |-> "flush", args |-> <<>>, err |-> ""]
  /\ disk' = flush(Vio, disk, diskDirs).disk
  /\ diskDirs' = flush(Vio, disk, diskDirs).diskDirs
  /\ fileLines' = flush(Vio, disk, diskDirs).fileLines
  /\ out' = flush(Vio, disk, diskDirs).out
  /\ data' = {}
  /\ UNCHANGED <<toSave, toDel, dirs, asts, mvs, propsCache, depsCache, res>>

NextCarry ==
  \/ CarrySave
  \/ CarryMove
  \/ CarryFlush

SpecCarry == InitCarry /\ [][NextCarry]_vars

(* ---------------------- renaming in a syntax tree ---------------------- *)
\* A tree, as renameIdentifier sees it: the scopes babel-traverse built
\* (scope s has the parent parents[s], 0 for the program scope, and the
\* table bindings[s] from a declared name to its identifier node, 0 for a
\* name it does not declare) and the identifier nodes in traversal order,
\* each with its name and the scope of its path.  Node i spans [i-1, i).
ScopeIds == 1..3

IdentNames == {"f", "g"}

\* scope.bindings[name], undefined (0) for no scope
bindingOf(ast, scope, name) == ast.bindings[scope][name]

\* the scope chain walked mistaking the outermost declaration for the
\* definition
RECURSIVE getDefNodeOutermost(_, _, _)
getDefNodeOutermost(ast, name, scope) ==
  IF scope = 0 THEN 0
  ELSE LET outer == getDefNodeOutermost(ast, name, ast.parents[scope])
       IN IF outer # 0 THEN outer ELSE bindingOf(ast, scope, name)

\* getDefNode(name, scope): the identifier node, 0 for null
RECURSIVE getDefNode(_, _, _)
getDefNode(ast, name, scope) ==
  IF scope = 0 THEN 0
  ELSE IF bindingOf(ast, scope, name) # 0 THEN bindingOf(ast, scope, name)
  ELSE getDefNode(ast, name, ast.parents[scope])

\* traverse(ast, {JSXIdentifier: rename, Identifier: rename}) from node i on:
\* [ast, changes]
RECURSIVE renameFrom(_, _, _, _, _, _)
renameFrom(ast, oldName, newName, defNode, i, changes) ==
  IF i > Len(ast.idents) THEN [ast |-> ast, changes |-> changes]
  ELSE LET node == ast.idents[i]
       IN IF node.name = oldName /\ getDefNode(ast, node.name, node.scope) = defNode
          THEN renameFrom([ast EXCEPT !.idents[i].name = newName],
                          oldName, newName, defNode, i + 1,
                          Append(changes, [start |-> i - 1, end |-> i,
                                           replacement |-> <<newName>>]))
          ELSE renameFrom(ast, oldName, newName, defNode, i + 1, changes)

\* renameIdentifier(ast, oldName, newName, defNode)
renameIdentifier(ast, oldName, newName, defNode) ==
  renameFrom(ast, oldName, newName, defNode, 1, <<>>)

\* the identifier nodes of a tree: a node named "f" may be the declaration
\* that one scope binds "f" to (decl, 0 for a node that declares nothing)
InputIdents ==
  {[name |-> n, scope |-> s, decl |-> d] :
     n \in IdentNames, s \in ScopeIds, d \in {0} \cup ScopeIds}

InputIdentLists ==
  UNION {{l \in [1..n -> {c \in InputIdents : c.name = "f" \/ c.decl = 0}] :
            \A i, j \in 1..n : (i # j /\ l[i].decl # 0) => l[i].decl # l[j].decl}
         : n \in 1..MaxIdents}

\* the tree babel builds: scope 2 is nested in the program scope 1, scope 3
\* in scope 1 or in scope 2
MkAst(parent3, l) ==
  [parents |-> <<0, 1, parent3>>,
   bindings |-> [s \in ScopeIds |->
                   [n \in IdentNames |->
                      IF \E i \in 1..Len(l) : l[i].decl = s /\ l[i].name = n
                      THEN CHOOSE i \in 1..Len(l) : l[i].decl = s /\ l[i].name = n
                      ELSE 0]],
   idents |-> [i \in 1..Len(l) |-> [name |-> l[i].name, scope |-> l[i].scope]]]

InitRename ==
  /\ EngineStart
  /\ disk = [p \in {"a"} |-> TextX]
  /\ data \in {MkAst(p3, l) : p3 \in {1, 2}, l \in InputIdentLists}
  /\ res = <<>>

\* renameIdentifier(ast, "f", "h", defNode), defNode a declaration of "f" as
\* renameClassName, renameFunctionName and renameImportSpecifier find it
CallRenameIdentifier ==
  \E defNode \in 1..Len(data.idents) :
    /\ \E s \in ScopeIds : data.bindings[s]["f"] = defNode
    /\ data.idents[defNode].name = "f"
    /\ nops < MaxOps
    /\ nops' = nops + 1
    /\ call' = [op |-> "renameIdentifier", args |-> <<defNode>>, err |-> ""]
    /\ out' = <<>>
    /\ LET r == renameIdentifier(data, "f", "h", defNode)
       IN data' = r.ast /\ res' = r.changes
    /\ UNCHANGED <<disk, diskDirs, overlay, propsCache, depsCache>>

NextRename == CallRenameIdentifier

SpecRename == InitRename /\ [][NextRename]_vars

\* node i is the id of a declaration: some scope binds a name to it; the
\* declarations of the trees above stand for function declarations
IsDeclarationId(ast, i) ==
  \E s \in ScopeIds, n \in IdentNames : ast.bindings[s][n] = i

\* traverse(ast, {FunctionDeclaration(path) {...}}) from node i on: defNode
\* is assigned at every declaration whose id has the name, 0 for null
RECURSIVE findFunctionDeclaration(_, _, _, _)
findFunctionDeclaration(ast, oldName, i, defNode) ==
  IF i > Len(ast.idents) THEN defNode
  ELSE findFunctionDeclaration(
         ast, oldName, i + 1,
         IF IsDeclarationId(ast, i) /\ ast.idents[i].name = oldName THEN i ELSE defNode)

\* what renameFunctionName does with the node found
renameFound(ast, oldName, newName, defNode) ==
  IF defNode # 0 THEN renameIdentifier(ast, oldName, newName, defNode)
  ELSE [ast |-> ast, changes |-> <<>>]

\* renameFunctionName(ast, oldName, newName): [ast, changes]
renameFunctionName(ast, oldName, newName) ==
  renameFound(ast, oldName, newName, findFunctionDeclaration(ast, oldName, 1, 0))

\* refactor.renameFunctionName(ast, "f", "h") on the caller's tree
CallRenameFunctionName ==
  /\ CalledOnData("renameFunctionName", <<>>)
  /\ data' = renameFunctionName(data, "f", "h").ast
  /\ res' = renameFunctionName(data, "f", "h").changes

\* refactor.renameFunctionName(ast, "g", "f") on the caller's tree
CallRenameFunctionNameBack ==
  /\ CalledOnData("renameFunctionName", <<"g">>)
  /\ data' = renameFunctionName(data, "g", "f").ast
  /\ res' = renameFunctionName(data, "g", "f").changes

NextRenameFunction ==
  \/ CallRenameFunctionName
  \/ CallRenameFunctionNameBack

\* the trees babel builds for function declarations: the id of a declaration
\* lies where its own binding is in scope
InitRenameFunction ==
  /\ InitRename
  /\ \A i \in 1..Len(data.idents) :
       IsDeclarationId(data, i)
         => getDefNode(data, data.idents[i].name, data.idents[i].scope) = i

SpecRenameFunction == InitRenameFunction /\ [][NextRenameFunction]_vars

(* ------------------------- line-oriented edits ------------------------- *)
\* Statements that are written "<keyword> ... from '<source>'" or
\* "@import '<source>'": the keyword a unit begins with and the source string
\* it ends with ("" for a unit that has none).
ExportStmts == {"expB", "expK"}

StyleStmts == {"styB", "styK"}

Keyword(u) ==
  IF u \in ImportStmts THEN "import"
  ELSE IF u \in ExportStmts THEN "export"
  ELSE IF u \in StyleStmts THEN "@import"
  ELSE ""

SourceOf(u) ==
  IF u \in {"impB", "expB", "styB"} THEN "B"
  ELSE IF u \in {"impK", "expK", "styK"} THEN "K"
  ELSE IF u = "react" THEN "react"
  ELSE ""

\* vio.getLines given an array: the array itself
getLinesOfArray(lines) == lines

\* _.findLastIndex(lines, match): 0-based, -1 when no line matches
findLastIndex(lines, match(_)) ==
  LET hits == {i \in 1..Len(lines) : match(lines[i])}
  IN IF hits = {} THEN -1
     ELSE (CHOOSE i \in hits : \A j \in hits : i >= j) - 1

\* the line pushed at the end instead of spliced in at i
spliceAtEnd(lines, i, line) == Append(lines, line)

\* lines.splice(i, 0, line)
spliceIn(lines, i, line) ==
  SubSeq(lines, 1, i) \o <<line>> \o SubSeq(lines, i + 1, Len(lines))

\* /^export .* from /.test(line)
IsExportFromLine(line) == line # <<>> /\ Head(line) \in ExportStmts

\* line.indexOf('@import ') >= 0
IsStyleImportLine(line) == \E i \in 1..Len(line) : line[i] \in StyleStmts

\* new RegExp(`<keyword> +.* +from +'<moduleSource>'`).test(line): the
\* keyword anywhere in the line and, from there on, a from-clause with the
\* source
MatchesFrom(line, keyword, moduleSource) ==
  \E i \in 1..Len(line) : \E j \in i..Len(line) :
    /\ Keyword(line[i]) = keyword
    /\ Keyword(line[j]) \in {"import", "export"}
    /\ SourceOf(line[j]) = moduleSource

\* removeLines(lines, str): _.remove of the matching lines
removeLines(lines, match(_)) ==
  LET kept(line) == ~match(line)
  IN SelectSeq(lines, kept)

\* the lines "import K from './K';", "export K from './K';" and
\* `@import '${moduleSource}';`
ImportLineOf(moduleSource) == IF moduleSource = "B" THEN <<"impB">> ELSE <<"impK">>

ExportLineOf(moduleSource) == IF moduleSource = "B" THEN <<"expB">> ELSE <<"expK">>

StyleLineOf(moduleSource) == IF moduleSource = "B" THEN <<"styB">> ELSE <<"styK">>

\* addExportFromLine(file, exportLine), given the lines
addExportFromLine(file, exportLine) ==
  LET lines == getLinesOfArray(file)
  IN spliceIn(lines, findLastIndex(lines, IsExportFromLine) + 1, exportLine)

\* addStyleImport(lines, moduleSource)
addStyleImport(lines, moduleSource) ==
  spliceIn(lines, findLastIndex(lines, IsStyleImportLine) + 1, StyleLineOf(moduleSource))

\* removeImportLine(file, moduleSource), given the lines
removeImportLine(file, moduleSource) ==
  LET lines == getLinesOfArray(file)
      match(l) == MatchesFrom(l, "import", moduleSource)
  IN removeLines(lines, match)

\* removeExportFromLine(file, moduleSource), given the lines
removeExportFromLine(file, moduleSource) ==
  LET lines == getLinesOfArray(file)
      match(l) == MatchesFrom(l, "export", moduleSource)
  IN removeLines(lines, match)

\* the wrapped line operations of module.exports, by name: what the function
\* makes of the lines it is given
LineOps == {"addImportLine", "addExportFromLine", "addStyleImport",
            "removeImportLine", "removeExportFromLine"}

lineFunc(op, lines, moduleSource) ==
  CASE op = "addImportLine" -> addImportLine(lines, ImportLineOf(moduleSource))
    [] op = "addExportFromLine" -> addExportFromLine(lines, ExportLineOf(moduleSource))
    [] op = "addStyleImport" -> addStyleImport(lines, moduleSource)
    [] op = "removeImportLine" -> removeImportLine(lines, moduleSource)
    [] op = "removeExportFromLine" -> removeExportFromLine(lines, moduleSource)

\* the wrapper forgetting to save what the function made of the lines
acceptFilePathForLinesNoSave(v, dk, op, file, moduleSource) ==
  LET v1 == getLinesStore(v, dk, file)
      lines == lineFunc(op, v1.fileLines[file], moduleSource)
  IN [v1 EXCEPT !.fileLines = MapSet(@, file, lines)]

\* acceptFilePathForLines(func)(file, moduleSource), file a path: func works
\* on the array vio caches for the path, then the array is saved
acceptFilePathForLines(v, dk, op, file, moduleSource) ==
  LET v1 == getLinesStore(v, dk, file)
      lines == lineFunc(op, v1.fileLines[file], moduleSource)
  IN save([v1 EXCEPT !.fileLines = MapSet(@, file, lines)], file, LinesArg(lines))

\* acceptFilePathForLines(func)(lines, moduleSource), lines an array of the
\* caller's: func works on it and vio is not called
acceptLines(op, lines, moduleSource) == lineFunc(op, lines, moduleSource)

\* renameModuleSource(ast, oldModuleSource, newModuleSource): one change for
\* each import or export-from whose source is the old one; a statement is
\* one unit, so the change spans the statement and puts the renamed one
RenamedStmt(stmt, newModuleSource) ==
  IF Keyword(stmt) = "import" THEN ImportLineOf(newModuleSource)
  ELSE ExportLineOf(newModuleSource)

RECURSIVE renameModuleSourceFrom(_, _, _, _)
renameModuleSourceFrom(ast, oldModuleSource, newModuleSource, i) ==
  IF i > Len(ast) THEN <<>>
  ELSE LET node == ast[i]
           rest == renameModuleSourceFrom(ast, oldModuleSource, newModuleSource, i + 1)
       IN IF Keyword(node.stmt) \in {"import", "export"}
             /\ SourceOf(node.stmt) = oldModuleSource
          THEN <<[start |-> node.start, end |-> node.end,
                  replacement |-> RenamedStmt(node.stmt, newModuleSource)]>> \o rest
          ELSE rest

renameModuleSource(ast, oldModuleSource, newModuleSource) ==
  renameModuleSourceFrom(ast, oldModuleSource, newModuleSource, 1)

\* acceptFilePathForAst(renameModuleSource)(file, old, new), file a path:
\* [v, changes]
acceptFilePathForAst(v, dk, file, oldModuleSource, newModuleSource) ==
  LET v1 == getAstStore(v, dk, file)
      changes == renameModuleSource(v1.asts[file], oldModuleSource, newModuleSource)
  IN [v |-> updateFile(v1, dk, file, changes), changes |-> changes]

\* the sources the calls name
ModuleSources == {"B", "K"}

\* the texts of the files the line operations work on; the caller holds the
\* lines and the tree of one, read before the calls
LineTexts ==
  {<<"impB", LF, "expB", LF, "styB", LF, "x">>,
   <<"x", LF, "impB", "expK", LF, "impK">>,
   TextX}

InitLines ==
  /\ EngineStart
  /\ disk \in {[p \in {"a"} |-> t] : t \in LineTexts}
  /\ data = [lines |-> Split(disk["a"]), ast |-> Parse(disk["a"])]
  /\ res = <<>>

\* refactor.<op>(file, moduleSource), file a path
CallLineOp ==
  \E op \in LineOps, p \in LinePaths, m \in ModuleSources :
    /\ Called(op, <<p, m>>, "")
    /\ SetVio(acceptFilePathForLines(Vio, disk, op, p, m))
    /\ out' = <<>>
    /\ UNCHANGED <<disk, diskDirs, propsCache, depsCache>>

\* refactor.<op>(lines, moduleSource), lines an array the caller holds
CallLineOpOnLines ==
  \E op \in LineOps, m \in ModuleSources :
    /\ CalledOnData(op, <<"lines", m>>)
    /\ data' = [data EXCEPT !.lines = acceptLines(op, @, m),
                            !.ast = Parse(Join(acceptLines(op, data.lines, m)))]
    /\ res' = <<>>

\* refactor.renameModuleSource(file, old, new), file a path
CallRenameModuleSource ==
  \E p \in LinePaths, o \in ModuleSources, n \in ModuleSources :
    /\ Called("renameModuleSource", <<p, o, n>>, "")
    /\ SetVio(acceptFilePathForAst(Vio, disk, p, o, n).v)
    /\ out' = <<>>
    /\ UNCHANGED <<disk, diskDirs, propsCache, depsCache>>

\* refactor.renameModuleSource(ast, old, new), ast a tree the caller holds
CallRenameModuleSourceOnAst ==
  \E o \in ModuleSources, n \in ModuleSources :
    /\ CalledOnData("renameModuleSource", <<"ast", o, n>>)
    /\ res' = renameModuleSource(data.ast, o, n)
    /\ UNCHANGED data

NextLines ==
  \/ CallLineOp
  \/ CallLineOpOnLines
  \/ CallRenameModuleSource
  \/ CallRenameModuleSourceOnAst

SpecLines == InitLines /\ [][NextLines]_vars

(* ------------------ import/export statements upserted ------------------ *)
\* A line here is one statement, [kw, source, specs]: "import"/"export" with
\* its module source and its specifiers in declaration order, or a line of
\* other code (kw = "").
OtherCode == [kw |-> "", source |-> "", specs |-> <<>>]

FromStmt(kind, moduleSource, specs) == [kw |-> kind, source |-> moduleSource, specs |-> specs]

\* the specifiers a call names: the default name, if any, then the named ones
NewSpecs(defaultName, namedNames) ==
  (IF defaultName = "" THEN <<>> ELSE <<defaultName>>) \o namedNames

\* index of the statement of the kind for the source, 0 when there is none
StmtIndex(lines, kind, moduleSource) ==
  LET hits == {i \in 1..Len(lines) :
                 lines[i].kw = kind /\ lines[i].source = moduleSource}
  IN IF hits = {} THEN 0 ELSE CHOOSE i \in hits : \A j \in hits : i <= j

\* upsertFrom that never looks for the statement of the source
upsertFromAlwaysAdds(lines, moduleSource, defaultName, namedNames, kind) ==
  LET ofKind(line) == line.kw = kind
  IN spliceIn(lines, findLastIndex(lines, ofKind) + 1,
              FromStmt(kind, moduleSource, NewSpecs(defaultName, namedNames)))

\* upsertFrom(path, moduleSource, defaultName?, namedName(s)?, kind) on the
\* lines of the path: the statement of the source gets the new names
\* appended (no deduplication), or a new statement goes after the last one
\* of the kind
upsertFrom(lines, moduleSource, defaultName, namedNames, kind) ==
  LET i == StmtIndex(lines, kind, moduleSource)
      ofKind(line) == line.kw = kind
  IN IF i # 0
     THEN [lines EXCEPT ![i].specs = @ \o NewSpecs(defaultName, namedNames)]
     ELSE spliceIn(lines, findLastIndex(lines, ofKind) + 1,
                   FromStmt(kind, moduleSource, NewSpecs(defaultName, namedNames)))

\* the files upsertFrom is called on: imports or exports of "A" and "D", then
\* other code; a file of other code only
UpsertFiles ==
  {<<FromStmt(k, "A", <<"A">>), FromStmt(k, "D", <<"C", "D">>), OtherCode>> :
     k \in {"import", "export"}}
  \cup {<<OtherCode>>}

InitUpsert ==
  /\ EngineStart
  /\ disk = [p \in {"a"} |-> TextX]
  /\ data \in [lines : UpsertFiles]
  /\ res = <<>>

\* refactor.addImportFrom / refactor.addExportFrom
CallUpsertFrom ==
  \E kind \in {"import", "export"}, m \in {"A", "K"},
     d \in {"", "W"}, n \in {<<>>, <<"Y">>} :
    /\ d # "" \/ n # <<>>
    /\ CalledOnData("upsertFrom", <<kind, m>>)
    /\ data' = [data EXCEPT !.lines = upsertFrom(@, m, d, n, kind)]
    /\ res' = <<>>

NextUpsert == CallUpsertFrom

SpecUpsert == InitUpsert /\ [][NextUpsert]_vars

(* --------------------- object-literal properties ----------------------- *)
\* The text of a located object literal, token by token: "{", the
\* properties ("p1: 1" is the token "p1"), the commas, the line breaks of a
\* multi-line literal, "}".
PropNames == {"p1", "p2", "p3", "p4"}

IsMultiLine(code) == \E i \in 1..Len(code) : code[i] = LF

\* 1-based place of the property in the text, 0 when the literal has none of
\* the name
PropIndex(code, name) ==
  IF \E i \in 1..Len(code) : code[i] = name
  THEN CHOOSE i \in 1..Len(code) : code[i] = name
  ELSE 0

TokenAt(code, i) == IF i \in 1..Len(code) THEN code[i] ELSE ""

\* the edit deleting the key-value pair only
removePropertyEditPairOnly(code, name) ==
  LET i == PropIndex(code, name)
  IN IF i = 0 THEN <<>>
     ELSE <<[start |-> i - 1, end |-> i, replacement |-> <<>>]>>

\* the edit removeProperty(name) makes: the key-value pair and its
\* separating comma; in a multi-line literal the line of the property
removePropertyEdit(code, name) ==
  LET i == PropIndex(code, name)
      comma == IF TokenAt(code, i + 1) = "," THEN 1 ELSE 0
      break == IF TokenAt(code, i + comma + 1) = LF THEN 1 ELSE 0
  IN IF i = 0 THEN <<>>
     ELSE IF IsMultiLine(code)
     THEN <<[start |-> i - 1, end |-> i + comma + break, replacement |-> <<>>]>>
     ELSE IF comma = 1
     THEN <<[start |-> i - 1, end |-> i + 1, replacement |-> <<>>]>>
     ELSE IF TokenAt(code, i - 1) = ","
     THEN <<[start |-> i - 2, end |-> i, replacement |-> <<>>]>>
     ELSE <<[start |-> i - 1, end |-> i, replacement |-> <<>>]>>

\* removeProperty(name) on the text of the literal
removeProperty(code, name) == updateSourceCode(code, removePropertyEdit(code, name))

\* the literals of the tests: obj (multi-line, a comma after every
\* property), the same without the last comma, obj4 (single-line)
ObjectTexts ==
  {<<"{", LF, "p1", ",", LF, "p2", ",", LF, "p3", ",", LF, "p4", ",", LF, "}">>,
   <<"{", LF, "p1", ",", LF, "p2", ",", LF, "p3", ",", LF, "p4", LF, "}">>,
   <<"{", "p1", ",", "p2", ",", "p3", ",", "p4", "}">>}

InitObject ==
  /\ EngineStart
  /\ disk = [p \in {"a"} |-> TextX]
  /\ data \in [code : ObjectTexts, props : {<<"p1", "p2", "p3", "p4">>}]
  /\ res = <<>>

\* refactor.removeObjectProperty(file, varName, propName); data.props are the
\* properties not removed so far
CallRemoveProperty ==
  \E name \in PropNames :
    LET kept(n) == n # name
    IN /\ CalledOnData("removeProperty", <<name>>)
       /\ data' = [code |-> removeProperty(data.code, name),
                   props |-> SelectSeq(data.props, kept)]
       /\ res' = <<>>

NextObject == CallRemoveProperty

SpecObject == InitObject /\ [][NextObject]_vars

(* ------------------ dependency extraction on modules ------------------- *)
TextImpB == <<"impB">>
TextComponent == <<"react", LF, "cls">>

\* the texts a put call is given when the files are modules
ModuleTexts == {TextImpB, TextComponent, TextX}

\* the disks the engine may start on when the files are modules
ModuleDisks ==
  {[p \in {"a", "b"} |-> IF p = "a" THEN TextImpB ELSE t] : t \in {TextComponent, TextX}}
  \cup {[p \in FilePaths |-> IF p = "a" THEN <<"impB", LF, "impK">>
                             ELSE IF p = "b" THEN TextComponent ELSE TextX]}

InitDeps ==
  /\ disk \in ModuleDisks
  /\ diskDirs = {"."}
  /\ toSave = <<>>
  /\ toDel = <<>>
  /\ fileLines = EmptyMap
  /\ dirs = <<>>
  /\ asts = EmptyMap
  /\ mvs = <<>>
  /\ propsCache = EmptyMap
  /\ depsCache = EmptyMap
  /\ call = [op |-> "start", args |-> <<>>, err |-> ""]
  /\ out = <<>>
  /\ nops = 0
  /\ data = <<>>
  /\ res = <<>>

\* vio.put(filePath, text), text a module
CallPutModule ==
  \E p \in FilePaths, t \in ModuleTexts :
    /\ Called("put", <<p>>, "")
    /\ SetVio(put(Vio, p, TextArg(t)))
    /\ out' = <<>>
    /\ UNCHANGED <<disk, diskDirs, propsCache, depsCache>>

\* refactor.getRekitProps(file)
CallGetRekitProps ==
  \E p \in FilePaths :
    LET r == getRekitProps(Vio, propsCache, disk, p)
    IN /\ nops < MaxOps
       /\ nops' = nops + 1
       /\ call' = [op |-> "getRekitProps", args |-> <<p>>, err |-> "", ret |-> r.ret]
       /\ SetVio(r.v)
       /\ propsCache' = r.pc
       /\ out' = <<>>
       /\ UNCHANGED <<disk, diskDirs, depsCache, data, res>>

\* refactor.getDeps(filePath)
CallGetDeps ==
  \E p \in FilePaths :
    LET r == getDeps(Vio, propsCache, depsCache, disk, diskDirs, p)
    IN /\ nops < MaxOps
       /\ nops' = nops + 1
       /\ call' = [op |-> "getDeps", args |-> <<p>>, err |-> "", ret |-> r.ret]
       /\ SetVio(r.v)
       /\ propsCache' = r.pc
       /\ depsCache' = r.dc
       /\ out' = <<>>
       /\ UNCHANGED <<disk, diskDirs, data, res>>

NextDeps ==
  \/ CallPutModule
  \/ CallGetRekitProps
  \/ CallGetDeps
  \/ CallReset

SpecDeps == InitDeps /\ [][NextDeps]_vars

\* a module that exports a reducer and imports ./constants
TextAction == <<"reducer", LF, "consts">>

\* the disks on which the module a imports two files of every signature
InitSignatures ==
  /\ EngineStart
  /\ \E tb \in {TextComponent, TextAction, TextX}, tc \in {TextComponent, TextAction, TextX} :
       disk = [p \in FilePaths |->
                 IF p = "a" THEN <<"impB", LF, "impK">>
                 ELSE IF p = "b" THEN tb ELSE tc]
  /\ data = <<>>
  /\ res = <<>>

SpecSignatures == InitSignatures /\ [][NextDeps]_vars

(* --------------- dependency records asked for repeatedly --------------- *)
\* The caller's ledger, in data: seen[p] is the content p had and the record
\* getDeps(p) returned when it was last called, touched the paths put or
\* saved since their last getDeps.
Seen(p, content, deps) == MapSet(data.seen, p, [content |-> content, deps |-> deps])

InitCache ==
  /\ EngineStart
  /\ disk \in ModuleDisks
  /\ data = [seen |-> EmptyMap, touched |-> {}]
  /\ res = <<>>

\* a call on the store that the ledger takes note of
CalledNoting(op, args, ledger) ==
  /\ nops < MaxOps
  /\ nops' = nops + 1
  /\ call' = [op |-> op, args |-> args, err |-> ""]
  /\ data' = ledger
  /\ out' = <<>>
  /\ UNCHANGED <<disk, diskDirs>>

\* refactor.getDeps(filePath); res is the record returned, whether it is the
\* cached one and whether the path was put or saved since the call before
CacheGetDeps ==
  \E p \in EditPaths :
    LET r == getDeps(Vio, propsCache, depsCache, disk, diskDirs, p)
    IN /\ CalledNoting("getDeps", <<p>>,
                       [seen |-> Seen(p, getContent(Vio, disk, p), r.ret),
                        touched |-> data.touched \ {p}])
       /\ SetVio(r.v)
       /\ propsCache' = r.pc
       /\ depsCache' = r.dc
       /\ res' = [ret |-> r.ret, cached |-> r.cached, touched |-> p \in data.touched]

\* vio.put(filePath, text)
CachePut ==
  \E p \in EditPaths, t \in ModuleTexts :
    /\ CalledNoting("put", <<p>>, [data EXCEPT !.touched = @ \cup {p}])
    /\ SetVio(put(Vio, p, TextArg(t)))
    /\ UNCHANGED <<propsCache, depsCache, res>>

\* vio.save(filePath, text)
CacheSave ==
  \E p \in EditPaths, t \in ModuleTexts :
    /\ CalledNoting("save", <<p>>, [data EXCEPT !.touched = @ \cup {p}])
    /\ SetVio(save(Vio, p, TextArg(t)))
    /\ UNCHANGED <<propsCache, depsCache, res>>

\* vio.reset()
CacheReset ==
  /\ CalledNoting("reset", <<>>, data)
  /\ SetVio(reset(Vio))
  /\ UNCHANGED <<propsCache, depsCache, res>>

NextCache ==
  \/ CacheGetDeps
  \/ CachePut
  \/ CacheSave
  \/ CacheReset

SpecCache == InitCache /\ [][NextCache]_vars

(* ------------- dependency extraction through entry files --------------- *)
\* the modules asked for their dependencies
EntryModuleTexts ==
  {<<"impIdxBN", LF, "impK">>,
   <<"impIdxNK", LF, "impB">>,
   <<"impActBN", LF, "impIdxNK">>,
   <<"impIdxAll", LF, "impActNK">>,
   <<"impIdxHomeB", LF, "impK">>}

\* the texts of a feature index and of a redux/actions.js
EntryTexts == {<<"expB", LF, "expK">>, <<"expB">>, <<"expK">>}

EntryPaths == {"idx", "acts"}

InitEntry ==
  /\ EngineStart
  /\ \E m \in EntryModuleTexts, e \in EntryTexts :
       disk = [p \in FilePaths \cup EntryPaths |->
                 IF p = "a" THEN m
                 ELSE IF p = "b" THEN TextComponent
                 ELSE IF p = "c" THEN TextX
                 ELSE e]
  /\ data = <<>>
  /\ res = <<>>

\* refactor.getDeps(filePath); res is the record returned, the names warned
\* about and the exception thrown, if any
EntryGetDeps ==
  LET r == getDeps(Vio, propsCache, depsCache, disk, diskDirs, "a")
  IN /\ nops < MaxOps
     /\ nops' = nops + 1
     /\ call' = [op |-> "getDeps", args |-> <<"a">>, err |-> r.err]
     /\ SetVio(r.v)
     /\ propsCache' = r.pc
     /\ depsCache' = r.dc
     /\ out' = r.warned
     /\ res' = [ret |-> r.ret, cached |-> r.cached]
     /\ UNCHANGED <<disk, diskDirs, data>>

\* vio.put(filePath, text), the module rewritten
EntryPutModule ==
  \E t \in EntryModuleTexts :
    /\ Called("put", <<"a">>, "")
    /\ SetVio(put(Vio, "a", TextArg(t)))
    /\ out' = <<>>
    /\ UNCHANGED <<disk, diskDirs, propsCache, depsCache>>

\* vio.put(filePath, text), an entry file rewritten
EntryPutEntry ==
  \E p \in EntryPaths, t \in EntryTexts :
    /\ Called("put", <<p>>, "")
    /\ SetVio(put(Vio, p, TextArg(t)))
    /\ out' = <<>>
    /\ UNCHANGED <<disk, diskDirs, propsCache, depsCache>>

NextEntry ==
  \/ EntryGetDeps
  \/ EntryPutModule
  \/ EntryPutEntry

SpecEntry == InitEntry /\ [][NextEntry]_vars

\* modules that import the same symbol more than once
RepeatModuleTexts ==
  {<<"impB", LF, "impB">>,
   <<"impIdxBN", LF, "impIdxBN">>,
   <<"impActBN", LF, "impActBN">>,
   <<"impActBN", LF, "impIdxBN">>}

InitRepeats ==
  /\ EngineStart
  /\ \E m \in RepeatModuleTexts, e \in EntryTexts :
       disk = [p \in FilePaths \cup EntryPaths |->
                 IF p = "a" THEN m
                 ELSE IF p = "b" THEN TextComponent
                 ELSE IF p = "c" THEN TextX
                 ELSE e]
  /\ data = <<>>
  /\ res = <<>>

SpecRepeats == InitRepeats /\ [][NextEntry]_vars

(* ------------------------------ claims --------------------------------- *)
\* labels of the log lines flush writes when it changes persistent storage
DiskOpLabels == {"Deleted: ", "Moved: ", "Updated: ", "Created: "}

Logged(o, label, filePath) == \E i \in 1..Len(o) : o[i] = <<label, filePath>>

\* C1: a flush called right after a flush, with no call in between, deletes,
\* renames and writes nothing: persistent storage is unchanged and no
\* "Deleted", "Moved", "Updated" or "Created" line is logged.
C1_SecondFlushDoesNothing ==
  [][(call.op = "flush" /\ call'.op = "flush")
       => /\ disk' = disk
          /\ diskDirs' = diskDirs
          /\ \A i \in 1..Len(out') : out'[i][1] \notin DiskOpLabels]_vars

C3_ResetClearsEverything ==
  [][/\ call'.op = "reset"
          => /\ toSave' = <<>> /\ toDel' = <<>> /\ dirs' = <<>> /\ mvs' = <<>>
             /\ DOMAIN fileLines' = {} /\ DOMAIN asts' = {}
             /\ DOMAIN propsCache' = {} /\ DOMAIN depsCache' = {}
     /\ (call.op = "reset" /\ call'.op = "getDeps")
          => call'.ret = getDeps(reset(Vio), EmptyMap, EmptyMap, disk, diskDirs,
                                 call'.args[1]).ret]_vars

\* C4: every cached tree is the parse of the lines cached for its path.
C4_TreeCacheCoherent ==
  \A p \in DOMAIN asts :
    p \in DOMAIN fileLines /\ asts[p] = Parse(Join(fileLines[p]))

\* C5: getLines on a path with no cached lines and no file on disk (neither
\* at the path nor at the source of a move that targets it) fails.
C5_ReadMissingFails ==
  [][\A p \in FilePaths :
       (/\ call'.op = "getLines" /\ call'.args = <<p>>
        /\ p \notin DOMAIN fileLines
        /\ p \notin DOMAIN disk
        /\ realFilePath(mvs, p) \notin DOMAIN disk)
         => call'.err # ""]_vars

\* existence judged against persistent storage and the overlay
ExistsAnywhere(p) == testE(disk, diskDirs, p) \/ fileExists(Vio, p)

\* C6: move fails whenever the old path does not exist or the new path
\* exists, on disk or in the overlay, and a failed move changes no cache and
\* no staging set.
C6_MoveConflict ==
  [][\A o \in FilePaths, n \in FilePaths :
       (call'.op = "move" /\ call'.args = <<o, n>>)
         => /\ (~ExistsAnywhere(o) \/ ExistsAnywhere(n)) => call'.err # ""
            /\ call'.err # "" => UNCHANGED overlay]_vars

VioNext == [toSave |-> toSave', toDel |-> toDel', fileLines |-> fileLines',
            dirs |-> dirs', asts |-> asts', mvs |-> mvs']

\* C7: after a move that succeeds, getLines(newPath) returns what
\* getLines(oldPath) returned before it, and oldPath has no cached lines and
\* no cached tree.
C7_MoveCarriesContent ==
  [][\A o \in FilePaths, n \in FilePaths :
       (call'.op = "move" /\ call'.args = <<o, n>> /\ call'.err = "")
         => /\ getLines(VioNext, disk', n) = getLines(Vio, disk, o)
            /\ o \notin DOMAIN fileLines'
            /\ o \notin DOMAIN asts']_vars

\* C8: a call other than flush leaves persistent storage as it is.
C8_OnlyFlushTouchesDisk ==
  [][call'.op # "flush" => disk' = disk /\ diskDirs' = diskDirs]_vars

\* a refactor call has staged a write of content the disk does not hold
C8_Witness ==
  /\ call.op = "updateFile"
  /\ \E p \in Range(toSave) :
       /\ p \in DOMAIN disk
       /\ p \in DOMAIN fileLines
       /\ Join(fileLines[p]) # Join(Split(disk[p]))
  /\ mvs # <<>>

\* the content flush finds on disk: shell.cat(filePath).split(/\r?\n/).join('\n')
DiskContent(dk, p) == Join(Split(cat(dk, p)))

\* neither a pending delete nor a pending move touches the path
Untouched(p) ==
  /\ p \notin Range(toDel)
  /\ \A i \in 1..Len(mvs) : mvs[i].k # p /\ mvs[i].v # p

\* C9: when flush returns, every path in toSave is on disk with its overlay
\* content; and a path in toSave that no delete or move touches and whose
\* overlay content already equals its content on disk is not written: its
\* file keeps its text and "nothing is changed" is logged for it.
C9_SavePhase ==
  [][call'.op = "flush" =>
       \A p \in Range(toSave) :
         /\ p \in DOMAIN disk'
         /\ p \in DOMAIN fileLines'
         /\ DiskContent(disk', p) = Join(fileLines'[p])
         /\ (/\ Untouched(p)
             /\ p \in DOMAIN disk
             /\ DiskContent(disk, p) = getContent(Vio, disk, p))
              => /\ disk'[p] = disk[p]
                 /\ Logged(out', "Warning: nothing is changed for: ", p)
                 /\ ~Logged(out', "Updated: ", p)
         /\ (/\ Untouched(p)
             /\ p \in DOMAIN disk
             /\ DiskContent(disk, p) # getContent(Vio, disk, p))
              => /\ disk'[p] = getContent(Vio, disk, p)
                 /\ Logged(out', "Updated: ", p)]_vars

\* one flush has skipped a file whose content was the same (up to its line
\* ends) and written another
C9_Witness ==
  /\ call.op = "flush"
  /\ \E p \in Range(toSave), q \in Range(toSave) :
       /\ Logged(out, "Warning: nothing is changed for: ", p)
       /\ disk[p] # Join(fileLines[p])
       /\ Logged(out, "Updated: ", q)

\* C10: flush never raises, and a target or source that is missing only
\* costs a warning: every pending delete, move and save gets its turn (a log
\* line each), every delete target and move source that is on disk when
\* flush starts and is not deleted first is deleted or moved, and every path
\* in toSave ends on disk with its overlay content.
C10_FlushWarnsAndGoesOn ==
  [][call'.op = "flush" =>
       /\ call'.err = ""
       /\ \A p \in Range(toDel) :
            /\ Logged(out', "Deleted: ", p) \/ Logged(out', "Warning: no file to delete: ", p)
            /\ testE(disk, diskDirs, p) => Logged(out', "Deleted: ", p)
            /\ (p \notin Range(toSave) /\ \A i \in 1..Len(mvs) : mvs[i].v # p)
                 => ~testE(disk', diskDirs', p)
       /\ \A i \in 1..Len(mvs) :
            /\ Logged(out', "Moved: ", mvs[i].k) \/ Logged(out', "Warning: no file to move: ", mvs[i].k)
            /\ (mvs[i].k \in DOMAIN disk /\ mvs[i].k \notin Range(toDel))
                 => /\ Logged(out', "Moved: ", mvs[i].k)
                    /\ mvs[i].v \in DOMAIN disk' \/ \E j \in 1..Len(mvs) : mvs[j].k = mvs[i].v
       /\ \A p \in Range(toSave) :
            /\ \/ Logged(out', "Warning: nothing is changed for: ", p)
               \/ Logged(out', "Updated: ", p)
               \/ Logged(out', "Created: ", p)
            /\ p \in DOMAIN disk'
            /\ DiskContent(disk', p) = Join(fileLines'[p])]_vars

\* one flush has warned of a missing delete target, then deleted a file, then
\* warned of a missing move source
C10_Witness ==
  /\ call.op = "flush"
  /\ \E i \in 1..Len(out), j \in 1..Len(out), k \in 1..Len(out) :
       /\ i < j /\ j < k
       /\ out[i][1] = "Warning: no file to delete: "
       /\ out[j][1] = "Deleted: "
       /\ out[k][1] = "Warning: no file to move: "

\* the orders a caller may give the same edits in
Reorderings(changes) ==
  {[i \in 1..Len(changes) |-> changes[f[i]]] : f \in Permutations(1..Len(changes))}

\* C11: applyEdits is permutation invariant: whatever the order the edits of
\* a list are given in (overlapping edits and edits sharing a start offset
\* included), the same edits are kept and the same text results.
C11_PermutationInvariant ==
  [][call'.op = "updateSourceCode" =>
       \A perm \in Reorderings(data.changes) :
         /\ updateSourceCode(data.code, perm) = res'
         /\ Range(KeepChanges(SortChanges(perm), 1, <<>>))
              = Range(KeepChanges(SortChanges(data.changes), 1, <<>>))]_vars

\* the scopes from s outwards
RECURSIVE ScopeChain(_, _)
ScopeChain(ast, s) == IF s = 0 THEN {} ELSE {s} \cup ScopeChain(ast, ast.parents[s])

\* the declaration lexical scoping gives the name at node i: that of the
\* innermost enclosing scope declaring it, 0 when none does
ResolvesTo(ast, i) ==
  LET name == ast.idents[i].name
      chain == ScopeChain(ast, ast.idents[i].scope)
      declaring == {s \in chain : ast.bindings[s][name] # 0}
  IN IF declaring = {} THEN 0
     ELSE LET inner == CHOOSE s \in declaring :
                         \A t \in declaring : t \in ScopeChain(ast, s)
          IN ast.bindings[inner][name]

\* C12: shadowing isolation: renameIdentifier emits one edit, and renames the
\* node, for exactly the occurrences of oldName that lexical scoping resolves
\* to the target declaration; an occurrence shadowed by an inner declaration,
\* bound in a disjoint scope or bound nowhere is left alone.
C12_ShadowingIsolation ==
  [][call'.op = "renameIdentifier" =>
       LET target == call'.args[1]
           hits == {i \in 1..Len(data.idents) :
                      data.idents[i].name = "f" /\ ResolvesTo(data, i) = target}
       IN /\ {c.start + 1 : c \in Range(res')} = hits
          /\ Len(res') = Cardinality(hits)
          /\ \A c \in Range(res') : c.end = c.start + 1 /\ c.replacement = <<"h">>
          /\ \A i \in 1..Len(data.idents) :
               data'.idents[i].name =
                 IF i \in hits THEN "h" ELSE data.idents[i].name]_vars

\* a rename was asked for on a tree where "f" is declared twice: the one
\* occurrence bound to the target was renamed, and an occurrence of "f" bound
\* to the other declaration was left alone
C12_Witness ==
  /\ call.op = "renameIdentifier"
  /\ Len(res) = 1
  /\ \E i \in 1..Len(data.idents) :
       /\ data.idents[i].name = "f"
       /\ ResolvesTo(data, i) \notin {0, call.args[1]}

\* the lines a call on a path or on the caller's lines worked on, before and
\* after it
LinesBefore == IF call'.args[1] = "lines" THEN data.lines
               ELSE getLines(Vio, disk, call'.args[1])

LinesAfter == IF call'.args[1] = "lines" THEN data'.lines
              ELSE fileLines'[call'.args[1]]

\* the lines of the statement kind an insertion goes after
OfKind(op, line) ==
  CASE op = "addImportLine" -> IsImportLine(line)
    [] op = "addExportFromLine" -> IsExportFromLine(line)
    [] op = "addStyleImport" -> IsStyleImportLine(line)

InsertedLine(op, moduleSource) ==
  CASE op = "addImportLine" -> ImportLineOf(moduleSource)
    [] op = "addExportFromLine" -> ExportLineOf(moduleSource)
    [] op = "addStyleImport" -> StyleLineOf(moduleSource)

\* new is old with the line put at place k: right after the last line of the
\* kind, first when there is none
PlacedAt(op, old, new, line, k) ==
  /\ new[k] = line
  /\ \A i \in 1..Len(old) : old[i] = new[IF i < k THEN i ELSE i + 1]
  /\ \A i \in k..Len(old) : ~OfKind(op, old[i])
  /\ k = 1 \/ OfKind(op, old[k - 1])

\* C13: insertion ordering rule: addImportLine, addExportFromLine and
\* addStyleImport put the new line right after the last line of its statement
\* kind, or first when there is none; the lines grow by exactly one and the
\* others keep their content and order.
C13_InsertAfterLast ==
  [][call'.op \in {"addImportLine", "addExportFromLine", "addStyleImport"}
     /\ Len(call'.args) = 2 =>
       /\ Len(LinesAfter) = Len(LinesBefore) + 1
       /\ \E k \in 1..Len(LinesAfter) :
            PlacedAt(call'.op, LinesBefore, LinesAfter,
                     InsertedLine(call'.op, call'.args[2]), k)]_vars

\* an export line was added to a file between its last export line and the
\* lines that follow it
C13_Witness ==
  /\ call.op = "addExportFromLine"
  /\ call.args[1] = "a"
  /\ \E k \in 2..(Len(fileLines["a"]) - 1) :
       /\ fileLines["a"][k] = ExportLineOf(call.args[2])
       /\ IsExportFromLine(fileLines["a"][k - 1])
       /\ \A i \in (k + 1)..Len(fileLines["a"]) : ~IsExportFromLine(fileLines["a"][i])

\* a line holding a statement of the keyword with the source
HoldsStmt(line, keyword, moduleSource) ==
  \E i \in 1..Len(line) : Keyword(line[i]) = keyword /\ SourceOf(line[i]) = moduleSource

RemovedKeyword(op) == IF op = "removeImportLine" THEN "import" ELSE "export"

\* C14: removing an import (export-from) statement by source removes every
\* line that is such a statement with that source and no other line; when no
\* statement has the source nothing changes.
C14_RemoveBySource ==
  [][call'.op \in {"removeImportLine", "removeExportFromLine"} =>
       LET gone(line) == ~HoldsStmt(line, RemovedKeyword(call'.op), call'.args[2])
       IN LinesAfter = SelectSeq(LinesBefore, gone)]_vars

\* a call given data of the caller's instead of a path
OnData == call'.args[1] \in {"lines", "ast"}

\* C19: path-or-data equivalence: a wrapped operation called with a path
\* leaves the overlay content of the path equal to what the operation makes
\* of the path's in-memory lines (or tree) and marks the path pending-write;
\* called with lines or a tree of the caller's it changes no staging set.
C19_PathOrData ==
  [][/\ (call'.op \in LineOps /\ ~OnData) =>
          /\ fileLines'[call'.args[1]]
               = acceptLines(call'.op, getLines(Vio, disk, call'.args[1]), call'.args[2])
          /\ call'.args[1] \in Range(toSave')
     /\ (call'.op = "renameModuleSource" /\ ~OnData) =>
          /\ getContent(VioNext, disk, call'.args[1])
               = updateSourceCode(getContent(Vio, disk, call'.args[1]),
                                  renameModuleSource(getAst(Vio, disk, call'.args[1]),
                                                     call'.args[2], call'.args[3]))
          /\ call'.args[1] \in Range(toSave')
     /\ (call'.op \in LineOps \cup {"renameModuleSource"} /\ OnData) =>
          UNCHANGED <<toSave, toDel, dirs, mvs>>]_vars

\* a style import was added to lines of the caller's, which changed, while
\* the only path pending-write is the one an earlier call on the path changed
C19_Witness ==
  /\ call.op = "addStyleImport"
  /\ call.args[1] = "lines"
  /\ data.lines # Split(disk["a"])
  /\ toSave = <<"a">>
  /\ fileLines["a"] # Split(disk["a"])

\* how many statements of the kind the lines hold for the source
StmtCount(lines, kind, moduleSource) ==
  Cardinality({i \in 1..Len(lines) :
                 lines[i].kw = kind /\ lines[i].source = moduleSource})

\* C15: upsertFrom is idempotent in statement count: a call for a source the
\* file has no statement for adds one statement, a call for a source it has a
\* statement for amends that statement and adds none, so that after any
\* calls for a source the file holds exactly one statement for it.
C15_UpsertOneStatement ==
  [][call'.op = "upsertFrom" =>
       LET kind == call'.args[1]
           m == call'.args[2]
       IN /\ StmtCount(data'.lines, kind, m) = 1
          /\ Len(data'.lines) =
               Len(data.lines) + (IF StmtCount(data.lines, kind, m) = 0 THEN 1 ELSE 0)
          /\ \A k \in {"import", "export"}, o \in {"A", "D", "K"} :
               <<k, o>> # <<kind, m>> =>
                 StmtCount(data'.lines, k, o) = StmtCount(data.lines, k, o)]_vars

\* a second call for a source that the first call added: the one statement
\* of the source holds the names of both calls
C15_Witness ==
  /\ call.op = "upsertFrom"
  /\ nops >= 2
  /\ \E i \in 1..Len(data.lines) :
       /\ data.lines[i].kw = call.args[1]
       /\ data.lines[i].source = "K"
       /\ Len(data.lines[i].specs) >= 3
  /\ StmtCount(data.lines, call.args[1], "K") = 1

\* the properties of a literal, in the order of its text
PropsOf(code) ==
  LET isProp(t) == t \in PropNames
  IN SelectSeq(code, isProp)

\* the text without its line breaks
NoBreaks(code) ==
  LET notBreak(t) == t # LF
  IN SelectSeq(code, notBreak)

\* a literal with no dangling and no doubled comma: "{", the properties with
\* one comma between two of them, "}"; a multi-line literal may have a comma
\* after its last property
WellFormedLiteral(code) ==
  LET t == NoBreaks(code)
      n == Len(t)
  IN /\ n >= 2 /\ t[1] = "{" /\ t[n] = "}"
     /\ \A i \in 2..(n - 1) :
          /\ t[i] \in PropNames \cup {","}
          /\ t[i] = "," => t[i - 1] \in PropNames
          /\ t[i] \in PropNames => t[i - 1] \in {"{", ","}
     /\ (~IsMultiLine(code) /\ n > 2) => t[n - 1] \in PropNames

\* C16: after any removeProperty calls the literal holds exactly the
\* properties not removed, in their original order, with no dangling or
\* doubled comma; with the last property removed it is the empty literal.
C16_RemoveProperty ==
  (call.op = "removeProperty") =>
     /\ PropsOf(data.code) = data.props
     /\ WellFormedLiteral(data.code)
     /\ data.props = <<>> => NoBreaks(data.code) = <<"{", "}">>

\* the single-line literal after its four properties were removed one by
\* one: "{ }"
C16_Witness ==
  /\ call.op = "removeProperty"
  /\ data.code = <<"{", "}">>
  /\ nops = 4

\* C17 as stated: getDeps(path) returns the cached record when the path was
\* not put or saved since the last getDeps(path), and recomputes when it was
\* (or when there was no earlier call).
C17_PutForcesRecompute ==
  [][call'.op = "getDeps" =>
       LET p == call'.args[1]
       IN res'.cached <=> (p \in DOMAIN data.seen /\ p \notin data.touched)]_vars

\* C17, amended: getDeps(path) returns the record of its last call, without
\* recomputing, exactly when the path's content is what it was at that call;
\* a put or save forces recomputation only if it changes the content.
C17_ContentKeyedCache ==
  [][call'.op = "getDeps" =>
       LET p == call'.args[1]
           same == p \in DOMAIN data.seen
                   /\ data.seen[p].content = getContent(Vio, disk, p)
       IN /\ res'.cached <=> same
          /\ same => res'.ret = data.seen[p].deps]_vars

\* getDeps was called on a path put or saved since its last call, with the
\* content it had at that call, and returned the cached record
C17_Witness ==
  /\ call.op = "getDeps"
  /\ res.cached
  /\ res.touched

\* the names an entry file exports, read from its text
ExportedNames(v, dk, entry) ==
  LET ast == Parse(getContent(v, dk, entry))
  IN {EntryExport(ast[i].stmt).name : i \in 1..Len(ast)} \ {""}

\* the name a specifier imports: its own for a named one, "default" for a
\* default one; a namespace specifier imports no single name
ImportedNames(stmt) ==
  LET specifiers == ImportSpecifiers(stmt)
  IN {IF specifiers[i].type = "ImportDefaultSpecifier" THEN "default"
      ELSE specifiers[i].name :
        i \in {j \in 1..Len(specifiers) :
                 specifiers[j].type # "ImportNamespaceSpecifier"}}

\* the import statements of the module
ModuleImports(v, dk, filePath) ==
  LET ast == Parse(getContent(v, dk, filePath))
  IN {ast[i].stmt : i \in 1..Len(ast)}

\* the module imports from an entry file a name the entry does not export
ImportsMissingName(v, dk, filePath) ==
  \E stmt \in ModuleImports(v, dk, filePath) :
    /\ stmt \in IndexImports \cup ActionImports
    /\ ImportedNames(stmt) \ ExportedNames(v, dk, importTarget(stmt)) # {}

\* the files the module depends on through the statements of one kind
FilesThrough(v, dk, filePath, kind) ==
  {EntryExport(u).file :
     u \in {x \in {"expB", "expK"} :
              \E stmt \in ModuleImports(v, dk, filePath) \cap kind :
                EntryExport(x).name \in
                  ImportedNames(stmt) \cap ExportedNames(v, dk, importTarget(stmt))}}

\* the files it names directly
FilesDirect(v, dk, dd, filePath) ==
  {importTarget(stmt) :
     stmt \in {x \in ModuleImports(v, dk, filePath) \cap {"impB", "impK"} :
                 testE(dk, dd, importTarget(x))}}

\* the files a dependency record holds, by the kind of entry
RecordedActions(deps) == {deps.actions[i].file : i \in 1..Len(deps.actions)}

RecordedFiles(deps) ==
  {deps.components[i].file : i \in 1..Len(deps.components)}
    \cup {deps.misc[i].name : i \in 1..Len(deps.misc)}

\* C18: when a module imports from an entry file (a feature index or an
\* actions.js) a name the entry does not export, getDeps still returns a
\* record, and the record holds every other dependency of the module: those of
\* the same statement and those of the other statements
C18_MissingNameSkipsOne ==
  [][(/\ call'.op = "getDeps"
      /\ nops' = nops + 1
      /\ ~res'.cached
      /\ ImportsMissingName(Vio, disk, "a"))
     => /\ call'.err = ""
        /\ RecordedActions(res'.ret) = FilesThrough(Vio, disk, "a", ActionImports)
        /\ RecordedFiles(res'.ret) =
             FilesThrough(Vio, disk, "a", IndexImports)
               \cup FilesDirect(Vio, disk, diskDirs, "a")]_vars

\* the same holds, and a warning is logged, when no statement of the module
\* imports the default export of an entry file
NamedSpecifiersSkipOne ==
  [][(/\ call'.op = "getDeps"
      /\ nops' = nops + 1
      /\ ~res'.cached
      /\ ImportsMissingName(Vio, disk, "a")
      /\ "impIdxHomeB" \notin ModuleImports(Vio, disk, "a"))
     => /\ call'.err = ""
        /\ out' # <<>>
        /\ RecordedActions(res'.ret) = FilesThrough(Vio, disk, "a", ActionImports)
        /\ RecordedFiles(res'.ret) =
             FilesThrough(Vio, disk, "a", IndexImports)
               \cup FilesDirect(Vio, disk, diskDirs, "a")]_vars

\* the phase of flush a log line comes from; creating a directory logs none
PhaseOf(label) ==
  IF label \in {"Deleted: ", "Warning: no file to delete: "} THEN 2
  ELSE IF label \in {"Moved: ", "Warning: no file to move: "} THEN 3
  ELSE 4

LogInPhaseOrder(log) ==
  \A i \in 1..Len(log), j \in 1..Len(log) :
    i < j => PhaseOf(log[i][1]) <= PhaseOf(log[j][1])

MoveSources(m) == {m[i].k : i \in 1..Len(m)}

MoveTargets(m) == {m[i].v : i \in 1..Len(m)}

\* C20: flush commits in phase order, directories, then deletes, then moves,
\* then writes. Its log lines come in that order; a directory pending both
\* creation and delete is gone afterwards (made, then removed); a file on disk
\* that is pending delete and is the source of a move is deleted, not moved;
\* a file that is moved away and pending write is at both places afterwards;
\* and a path pending both delete and write is on disk afterwards with the
\* lines staged for it, written anew unless a move has put a file there.
C20_PhaseOrder ==
  [][(call'.op = "flush" /\ nops' = nops + 1) =>
       /\ LogInPhaseOrder(out')
       /\ \A d \in Range(dirs) \cap Range(toDel) : ~testE(disk', diskDirs', d)
       /\ \A p \in Range(toDel) \cap MoveSources(mvs) :
            p \in DOMAIN disk =>
              /\ Logged(out', "Deleted: ", p)
              /\ Logged(out', "Warning: no file to move: ", p)
       /\ \A i \in 1..Len(mvs) :
            (/\ mvs[i].k \in Range(toSave)
             /\ mvs[i].k \in DOMAIN disk
             /\ mvs[i].k \notin Range(toDel))
              => /\ mvs[i].k \in DOMAIN disk'
                 /\ mvs[i].v \in DOMAIN disk'
                 /\ Logged(out', "Created: ", mvs[i].k)
       /\ \A p \in Range(toDel) \cap Range(toSave) :
            p \in DOMAIN fileLines =>
              /\ p \in DOMAIN disk'
              /\ DiskContent(disk', p) = Join(fileLines[p])
              /\ p \notin MoveTargets(mvs) =>
                   /\ disk'[p] = Join(fileLines[p])
                   /\ Logged(out', "Created: ", p)]_vars

\* C20 witness: a flush has deleted a file and then written it again, and
\* has moved another
C20_Witness ==
  /\ call.op = "flush"
  /\ \E p \in Range(toDel) \cap Range(toSave) :
       /\ Logged(out, "Deleted: ", p)
       /\ Logged(out, "Created: ", p)
       /\ p \in DOMAIN disk
  /\ \E i \in 1..Len(out) : PhaseOf(out[i][1]) = 3

\* C21: move chains collapse. A move of a path that is itself the target of
\* a pending move (and is not pending delete), to a path that exists neither
\* on disk nor in the overlay, succeeds and rebinds the earlier move's source
\* to the new path; and after a move that succeeds no path is both a source
\* key and a destination of the move table.
C21_MoveChainsCollapse ==
  [][\A o \in FilePaths, n \in FilePaths :
       (call'.op = "move" /\ call'.args = <<o, n>> /\ nops' = nops + 1)
         => /\ (/\ o \in MoveTargets(mvs)
                /\ o \notin Range(toDel)
                /\ o # n
                /\ ~ExistsAnywhere(n)
                /\ n \notin MoveTargets(mvs) \cup MoveSources(mvs))
                 => /\ call'.err = ""
                    /\ \E i \in 1..Len(mvs') :
                         mvs'[i] = [k |-> realFilePath(mvs, o), v |-> n]
                    /\ o \notin MoveSources(mvs')
            /\ call'.err = "" => MoveSources(mvs') \cap MoveTargets(mvs') = {}]_vars

\* half-open ranges [start, end) that share a position, or an empty one
\* strictly inside the other
Overlap(c1, c2) == c1.start < c2.end /\ c2.start < c1.end

\* the edits updateSourceCode keeps, as the claims word the rule: edits are
\* visited by descending start (edits of equal start in the order given) and
\* one is kept iff none is kept yet or the last kept starts after its end
RECURSIVE KeptFrom(_, _)
KeptFrom(visited, kept) ==
  IF visited = <<>> THEN kept
  ELSE KeptFrom(Tail(visited),
                IF kept = <<>> \/ kept[Len(kept)].start > Head(visited).end
                THEN kept \o <<Head(visited)>> ELSE kept)

KeptEdits(changes) == KeptFrom(SortChanges(changes), <<>>)

\* the text with the ranges of pairwise apart edits replaced, built from its
\* start: edits holds them by descending start, so the last one comes first
RECURSIVE Replaced(_, _, _)
Replaced(code, edits, from) ==
  IF edits = <<>> THEN SubSeq(code, from + 1, Len(code))
  ELSE LET c == edits[Len(edits)]
       IN SubSeq(code, from + 1, c.start) \o c.replacement
            \o Replaced(code, SubSeq(edits, 1, Len(edits) - 1), c.end)

EditsCalled == call'.op = "updateSourceCode" /\ nops' = nops + 1

\* C22 as stated: updateSourceCode returns the text with exactly the kept
\* edits' ranges replaced, the kept edits are pairwise non-overlapping, and
\* of two overlapping edits the one with the larger start offset is kept.
C22_LargerStartRetained ==
  [][EditsCalled =>
       LET kept == KeptEdits(data.changes)
       IN /\ res' = Replaced(data.code, kept, 0)
          /\ \A i \in 1..Len(kept), j \in 1..Len(kept) :
               i # j => ~Overlap(kept[i], kept[j])
          /\ \A i \in 1..Len(data.changes), j \in 1..Len(data.changes) :
               (/\ Overlap(data.changes[i], data.changes[j])
                /\ data.changes[i].start > data.changes[j].start)
                 => data.changes[i] \in Range(kept)]_vars

\* C22: updateSourceCode returns the text with exactly the kept edits'
\* ranges replaced; the kept edits are pairwise non-overlapping; and of two
\* overlapping edits the one with the smaller start offset is discarded
\* whenever the one with the larger start offset is kept.
C22_KeptEditsApplied ==
  [][EditsCalled =>
       LET kept == KeptEdits(data.changes)
       IN /\ res' = Replaced(data.code, kept, 0)
          /\ \A i \in 1..Len(kept), j \in 1..Len(kept) :
               i # j => ~Overlap(kept[i], kept[j])
          /\ \A i \in 1..Len(data.changes), j \in 1..Len(data.changes) :
               (/\ Overlap(data.changes[i], data.changes[j])
                /\ data.changes[i].start > data.changes[j].start
                /\ data.changes[i] \in Range(kept)
                /\ data.changes[i] # data.changes[j])
                 => data.changes[j] \notin Range(kept)]_vars

\* C22 witness: a call was given three edits, the middle one overlapping both
\* others; the one of largest start was kept, the middle one discarded, and
\* the one of smallest start kept although the middle one starts after it
C22_Witness ==
  /\ call.op = "updateSourceCode"
  /\ Len(data.changes) = 3
  /\ Overlap(data.changes[1], data.changes[2])
  /\ Overlap(data.changes[2], data.changes[3])
  /\ data.changes[2].start > data.changes[3].start
  /\ KeptEdits(data.changes) = <<data.changes[1], data.changes[3]>>
  /\ res = Replaced(data.code, <<data.changes[1], data.changes[3]>>, 0)
  /\ res # data.code

\* the first declaration named name in traversal order, 0 when none
FirstDeclaration(ast, name) ==
  LET decls == {i \in 1..Len(ast.idents) :
                  IsDeclarationId(ast, i) /\ ast.idents[i].name = name}
  IN IF decls = {} THEN 0 ELSE CHOOSE i \in decls : \A j \in decls : i <= j

\* C23: renameFunctionName targets the first declaration named oldName in
\* traversal order: the occurrences it renames (one edit each) are exactly
\* those of oldName that resolve to that declaration.
C23_FirstDeclarationOnly ==
  [][(call'.op = "renameFunctionName" /\ nops' = nops + 1 /\ call'.args = <<>>) =>
       LET target == FirstDeclaration(data, "f")
           hits == {i \in 1..Len(data.idents) :
                      /\ target # 0
                      /\ data.idents[i].name = "f"
                      /\ ResolvesTo(data, i) = target}
       IN /\ {c.start + 1 : c \in Range(res')} = hits
          /\ \A i \in 1..Len(data.idents) :
               data'.idents[i].name =
                 IF i \in hits THEN "h" ELSE data.idents[i].name]_vars

\* the files a dependency record holds in its misc bucket
RecordedMisc(deps) == {deps.misc[i].name : i \in 1..Len(deps.misc)}

RecordedComponents(deps) == {deps.components[i].file : i \in 1..Len(deps.components)}

\* the signature of a file, read from its text in the overlay
SignatureOf(v, dk, file) == rekitProps(Parse(getContent(v, dk, file)))

\* C24: in the record getDeps computes, every direct file dependency is in
\* exactly one bucket, chosen by the signature of the file: components for a
\* component, actions for a file that exports a reducer and imports the
\* constants, misc for any other.
C24_OneBucketBySignature ==
  [][\A p \in FilePaths :
       (/\ call'.op = "getDeps"
        /\ call'.args = <<p>>
        /\ nops' = nops + 1
        /\ ~getDeps(Vio, propsCache, depsCache, disk, diskDirs, p).cached)
         => \A f \in FilesDirect(Vio, disk, diskDirs, p) :
              LET sig == SignatureOf(Vio, disk, f)
                  inC == f \in RecordedComponents(call'.ret)
                  inA == f \in RecordedActions(call'.ret)
                  inM == f \in RecordedMisc(call'.ret)
              IN IF sig.component THEN inC /\ ~inA /\ ~inM
                 ELSE IF sig.action THEN inA /\ ~inC /\ ~inM
                 ELSE inM /\ ~inC /\ ~inA]_vars

\* half-open ranges that share no position; one may end where the other
\* starts
Disjoint(c1, c2) == c1.end <= c2.start \/ c2.end <= c1.start

\* C25: when the ranges of an edit list are pairwise disjoint (adjacent ones
\* included) and start at different offsets, updateSourceCode applies every
\* edit: the text returned is the text with each range replaced.
C25_DisjointEditsAllApplied ==
  [][(/\ EditsCalled
      /\ \A i \in 1..Len(data.changes), j \in 1..Len(data.changes) :
           i # j => /\ Disjoint(data.changes[i], data.changes[j])
                    /\ data.changes[i].start # data.changes[j].start)
       => res' = Replaced(data.code, SortChanges(data.changes), 0)]_vars

\* C26: when flush runs with a path moved while it had content pending
\* write (saved then moved, or moved then saved at the new path), the old
\* path is not on disk afterwards and the new path holds the staged content.
C26_MovedContentLands ==
  [][(call'.op = "flush" /\ nops' = nops + 1) =>
       \A r \in data :
         /\ r.old \notin DOMAIN disk'
         /\ r.new \in DOMAIN disk'
         /\ r.new \in DOMAIN fileLines
         /\ DiskContent(disk', r.new) = Join(fileLines[r.new])]_vars

\* no two entries of a bucket have the same feature and name
NoTwice(bucket) ==
  \A i \in 1..Len(bucket), j \in 1..Len(bucket) :
    (bucket[i].feature = bucket[j].feature /\ bucket[i].name = bucket[j].name)
      => i = j

\* C27: in every record getDeps returns, neither the actions bucket nor the
\* components bucket holds two entries with the same feature and name,
\* however many times the module imports the symbol.
C27_NoDuplicateEntries ==
  [][(call'.op = "getDeps" /\ nops' = nops + 1 /\ call'.err = "")
       => NoTwice(res'.ret.actions) /\ NoTwice(res'.ret.components)]_vars

====
